---- MODULE Spec2Model ----
(***************************************************************************)
(* A model of redrift's evaluation core: lineage resolution, the follow-up *)
(* audit of the task log, drift evaluation (compute_redrift) and the       *)
(* verification runner (run_verify) with its persisted report.             *)
(*                                                                         *)
(* Python strings are TLA+ strings; TLC evaluates Len, \o, SubSeq, Head and *)
(* Tail on them, so prefix matching, substring tests, strip() and lower()  *)
(* are computed character by character as the code computes them.          *)
(***************************************************************************)
EXTENDS Integers, Sequences, FiniteSets, TLC

VARIABLES
    lin_task,     \* SpecLineage: the task id handed to redrift_lineage
    lin_first,    \* SpecLineage: result of resolving lin_task
    lin_second,   \* SpecLineage: result of resolving the returned root again
    disk,         \* the artifact files that exist, as paths below project_dir
    graph,        \* .workgraph/graph.jsonl: whether it exists, and its lines
    vfiles,       \* content of every verify-state file, by path below project_dir
    fu_call,      \* SpecFollowups: arguments of the running follow-up audit
    fu_out,       \* SpecFollowups: what _load_unresolved_followups produced
    dr_call,      \* arguments of the running compute_redrift call
    dr_out,       \* the report compute_redrift returned, or that it raised
    worktree,     \* the working tree the verify commands and assertions read
    vr_call,      \* arguments of the last run_verify call
    vr_run,       \* SpecRun: the local state of a run_verify call in progress
    vr_out,       \* the report run_verify returned (in memory, not yet persisted)
    persisted,    \* per task id, the report last handed to write_verify_state
    last_json,    \* content of .workgraph/.redrift/last.json
    wg_log,       \* the messages the check entry point logged on the task
    wr_out,       \* how the latest write of a state file ended
    ex_call,      \* arguments and environment of the running execute or commit command
    ex_out,       \* what the command did and returned
    wg_tasks,     \* the tasks of the task graph, as ensure_task left them
    repo          \* the git repository: changed paths and the commits made

vars == <<lin_task, lin_first, lin_second, disk, graph, vfiles, fu_call, fu_out, dr_call, dr_out,
          worktree, vr_call, vr_run, vr_out, persisted, last_json, wg_log, wr_out,
          ex_call, ex_out, wg_tasks, repo>>

linVars == <<lin_task, lin_first, lin_second>>
fsVars == <<disk, graph, vfiles>>
fuVars == <<fu_call, fu_out>>
drVars == <<dr_call, dr_out>>
vrVars == <<worktree, vr_call, vr_run, vr_out, persisted>>
cliVars == <<last_json, wg_log, wr_out>>
exVars == <<ex_call, ex_out, wg_tasks, repo>>

(***************************************************************************)
(* Bounds                                                                  *)
(***************************************************************************)
MaxPrefixes == 2      \* follow-up prefixes stacked on a generated task id
MaxLogLines == 2      \* lines appended to the task log
MaxDriftLog == 1      \* lines of the task log while drift is evaluated
MaxWgLog == 1         \* messages logged on the task by the check entry point

(***************************************************************************)
(* Python string primitives                                                *)
(***************************************************************************)
Char(s, i) == SubSeq(s, i, i)

StartsWith(s, p) == Len(p) <= Len(s) /\ SubSeq(s, 1, Len(p)) = p

\* Python's `sub in s`
Contains(sub, s) == \E i \in 0..(Len(s) - Len(sub)) : SubSeq(s, i + 1, i + Len(sub)) = sub

Whitespace == {" ", "\t", "\n", "\r"}

RECURSIVE LStripChars(_, _)
LStripChars(s, cs) == IF s # "" /\ Head(s) \in cs THEN LStripChars(Tail(s), cs) ELSE s

RECURSIVE RStripChars(_, _)
RStripChars(s, cs) ==
    IF s # "" /\ Char(s, Len(s)) \in cs THEN RStripChars(SubSeq(s, 1, Len(s) - 1), cs) ELSE s

\* str.strip()
Strip(s) == RStripChars(LStripChars(s, Whitespace), Whitespace)

UpperAlpha == "ABCDEFGHIJKLMNOPQRSTUVWXYZ"
LowerAlpha == "abcdefghijklmnopqrstuvwxyz"

LowerChar(c) ==
    IF \E i \in 1..26 : Char(UpperAlpha, i) = c
    THEN Char(LowerAlpha, CHOOSE i \in 1..26 : Char(UpperAlpha, i) = c)
    ELSE c

\* str.lower()
RECURSIVE Lower(_)
Lower(s) == IF s = "" THEN "" ELSE LowerChar(Head(s)) \o Lower(Tail(s))

RECURSIVE Repeat(_, _)
Repeat(s, n) == IF n = 0 THEN "" ELSE s \o Repeat(s, n - 1)

None == [none |-> TRUE]

(***************************************************************************)
(* JSON values as Python sees them after json.loads                        *)
(***************************************************************************)
JMissing == [j |-> "missing", s |-> "", n |-> 0]   \* key absent: dict.get gives None
JNull == [j |-> "null", s |-> "", n |-> 0]
JStr(s) == [j |-> "str", s |-> s, n |-> 0]
JNum(n) == [j |-> "num", s |-> "", n |-> n]
\* a float, by its text and the integer int() truncates it to
JFloat(text, whole) == [j |-> "float", s |-> text, n |-> whole]
\* a boolean: int(True) is 1, int(False) is 0
JBool(b) == [j |-> "bool", s |-> IF b THEN "True" ELSE "False", n |-> IF b THEN 1 ELSE 0]

\* bool(v)
Truthy(v) ==
    CASE v.j = "str" -> v.s # ""
      [] v.j = "num" -> v.n # 0
      [] v.j = "float" -> v.s \notin {"0.0", "-0.0"}
      [] v.j = "bool" -> v.n = 1
      [] OTHER -> FALSE

\* str(v or "")
StrOrEmpty(v) ==
    IF ~Truthy(v) THEN ""
    ELSE IF v.j = "num" THEN ToString(v.n) ELSE v.s

(***************************************************************************)
(* drift.py: lineage                                                       *)
(***************************************************************************)
PHASE_ORDER == <<"analyze", "respec", "design", "build">>

Phases == {PHASE_ORDER[i] : i \in 1..Len(PHASE_ORDER)}

\* the literal alternatives of _FOLLOWUP_PREFIX_RE
FollowupPrefixes ==
    {"redrift-exec-" \o p \o "-" : p \in Phases}
    \cup {"redrift-" \o p \o "-" : p \in Phases \cup {"v2"}}
    \cup {"drift-therapy-redrift-"}

\* _FOLLOWUP_PREFIX_RE.match(current): no alternative is a prefix of another,
\* so at most one matches
PrefixMatches(current) == {p \in FollowupPrefixes : StartsWith(current, p)}

LineageCap == 20

\* the for-loop of redrift_lineage, `iter` iterations done so far
RECURSIVE LineageLoop(_, _, _)
LineageLoop(current, depth, iter) ==
    IF iter = LineageCap \/ PrefixMatches(current) = {}
    THEN [current |-> current, depth |-> depth]
    ELSE LET p == CHOOSE q \in PrefixMatches(current) : TRUE
         IN LineageLoop(SubSeq(current, Len(p) + 1, Len(current)), depth + 1, iter + 1)

redrift_lineage(task_id) ==
    LET r == LineageLoop(task_id, 0, 0)
    IN [root |-> IF r.current # "" THEN r.current ELSE task_id, depth |-> r.depth]

(***************************************************************************)
(* drift.py: status normalisation and the follow-up audit                  *)
(***************************************************************************)
_normalize_status(raw) ==
    LET value == Lower(Strip(StrOrEmpty(raw)))
    IN CASE value \in {"done", "completed", "complete"} -> "done"
         [] value \in {"abandoned"} -> "abandoned"
         [] value \in {"failed", "error"} -> "failed"
         [] value \in {"blocked"} -> "blocked"
         [] value \in {"in-progress", "in_progress"} -> "in_progress"
         [] value \in {"pending-review", "pending_review"} -> "pending_review"
         [] value \in {"open", "todo", "pending", "not_started", "not-started"} -> "open"
         [] OTHER -> IF value # "" THEN value ELSE "open"

NoGraph == [exists |-> FALSE, lines |-> <<>>]

\* One line of graph.jsonl, by what json.loads makes of it:
\*   blank    - only whitespace, skipped before parsing
\*   invalid  - json.loads raises, the line is skipped
\*   nonobj   - valid JSON that is not an object (array, number, string, null)
\*   object   - a JSON object with optional kind / id / status
BlankLine == [t |-> "blank", kind |-> JMissing, id |-> JMissing, status |-> JMissing]
InvalidLine == [t |-> "invalid", kind |-> JMissing, id |-> JMissing, status |-> JMissing]
NonObjectLine == [t |-> "nonobj", kind |-> JMissing, id |-> JMissing, status |-> JMissing]
ObjectLine(k, i, s) == [t |-> "object", kind |-> k, id |-> i, status |-> s]

\* faulty variant: the record of the evaluated task itself is not skipped
LineOutcomeKeepsSelf(line, root_task_id, task_id) ==
    LET rid == StrOrEmpty(line.id)
    IN CASE line.t = "blank" -> "skip"
         [] line.t = "invalid" -> "skip"
         [] line.t = "nonobj" -> "raise"
         [] OTHER ->
              IF StrOrEmpty(line.kind) # "task" THEN "skip"
              ELSE IF rid = "" THEN "skip"
              ELSE IF ~Contains(root_task_id, rid) THEN "skip"
              ELSE IF ~(StartsWith(rid, "redrift-") \/ StartsWith(rid, "drift-therapy-redrift-"))
                   THEN "skip"
              ELSE IF _normalize_status(line.status) \in {"done", "abandoned"} THEN "skip"
              ELSE "keep"

\* the body of the for-loop over one line: "skip", "raise" or "keep"
LineOutcome(line, root_task_id, task_id) ==
    LET rid == StrOrEmpty(line.id)
    IN CASE line.t = "blank" -> "skip"
         [] line.t = "invalid" -> "skip"
         [] line.t = "nonobj" -> "raise"        \* row.get on a non-dict: AttributeError
         [] OTHER ->
              IF StrOrEmpty(line.kind) # "task" THEN "skip"
              ELSE IF rid = "" \/ rid = task_id THEN "skip"
              ELSE IF ~Contains(root_task_id, rid) THEN "skip"
              ELSE IF ~(StartsWith(rid, "redrift-") \/ StartsWith(rid, "drift-therapy-redrift-"))
                   THEN "skip"
              ELSE IF _normalize_status(line.status) \in {"done", "abandoned"} THEN "skip"
              ELSE "keep"

RECURSIVE FollowupScan(_, _, _, _)
FollowupScan(lines, root_task_id, task_id, unresolved) ==
    IF lines = <<>> THEN [raised |-> FALSE, unresolved |-> unresolved]
    ELSE LET line == Head(lines)
             o == LineOutcome(line, root_task_id, task_id)
         IN IF o = "raise" THEN [raised |-> TRUE, unresolved |-> <<>>]
            ELSE FollowupScan(Tail(lines), root_task_id, task_id,
                     IF o = "keep"
                     THEN Append(unresolved, [id |-> StrOrEmpty(line.id),
                                              status |-> _normalize_status(line.status)])
                     ELSE unresolved)

_load_unresolved_followups(g, root_task_id, task_id) ==
    IF ~g.exists THEN [raised |-> FALSE, unresolved |-> <<>>]
    ELSE FollowupScan(g.lines, root_task_id, task_id, <<>>)

(***************************************************************************)
(* verify.py: the persisted verification report                            *)
(***************************************************************************)
SafeKeyAlphabet == UpperAlpha \o LowerAlpha \o "0123456789_.-"

SafeKeyChars == {Char(SafeKeyAlphabet, i) : i \in 1..Len(SafeKeyAlphabet)}

\* re.sub(r"[^A-Za-z0-9_.-]+", "__", s): inRun is true inside a run already replaced
RECURSIVE CollapseUnsafe(_, _)
CollapseUnsafe(s, inRun) ==
    IF s = "" THEN ""
    ELSE IF Head(s) \in SafeKeyChars THEN Head(s) \o CollapseUnsafe(Tail(s), FALSE)
    ELSE IF inRun THEN CollapseUnsafe(Tail(s), TRUE)
    ELSE "__" \o CollapseUnsafe(Tail(s), TRUE)

_safe_task_key(task_id) ==
    LET key == CollapseUnsafe(Strip(task_id), FALSE)
        trimmed == RStripChars(LStripChars(key, {".", "_"}), {".", "_"})
    IN IF trimmed # "" THEN trimmed ELSE "task"

verify_state_path(task_id) == ".workgraph/.redrift/verify/" \o _safe_task_key(task_id) \o ".json"

\* Content of a verify-state file:
\*   absent  - no file
\*   corrupt - not decodable as JSON
\*   array   - decodable, a non-empty JSON array (truthy, not a dict)
\*   object  - a JSON object; score is its "score" member (JMissing when it has
\*             none), other says whether it has any other member
VAbsent == [c |-> "absent", score |-> JMissing, other |-> FALSE]
VCorrupt == [c |-> "corrupt", score |-> JMissing, other |-> FALSE]
VArray == [c |-> "array", score |-> JMissing, other |-> FALSE]
VObject(score, other) == [c |-> "object", score |-> score, other |-> other]

\* what load_verify_state returns: absent and undecodable files both give None
load_verify_state(files, task_id) ==
    LET content == files[verify_state_path(task_id)]
    IN IF content.c \in {"absent", "corrupt"} THEN None ELSE content

\* bool(verify_report): None and an empty dict are falsy
ReportTruthy(report) ==
    /\ report # None
    /\ report.c = "array" \/ report.score # JMissing \/ report.other

(***************************************************************************)
(* drift.py: compute_redrift                                               *)
(***************************************************************************)
Min(a, b) == IF a <= b THEN a ELSE b

Take(seq, n) == SubSeq(seq, 1, Min(n, Len(seq)))

\* str.split("/", 1)[0]
RECURSIVE FirstSegment(_)
FirstSegment(s) ==
    IF s = "" \/ Head(s) = "/" THEN "" ELSE Head(s) \o FirstSegment(Tail(s))

\* faulty variant: the first segment is compared without lower-casing
_phase_for_artifact_CaseSensitive(rel_path) ==
    LET part == Strip(FirstSegment(rel_path))
    IN IF part \in Phases THEN part ELSE "build"

_phase_for_artifact(rel_path) ==
    LET part == Lower(Strip(FirstSegment(rel_path)))
    IN IF part \in Phases THEN part ELSE "build"

\* Path.exists() for a path below project_dir: a file, or a directory holding one
PathExists(files, path) == path \in files \/ \E f \in files : StartsWith(f, path \o "/")

ArtifactPath(artifact_root, task_id, rel_clean) ==
    artifact_root \o "/" \o task_id \o "/" \o rel_clean

NoPhaseMissing == [ph \in Phases |-> <<>>]

\* the loop over spec.required_artifacts
RECURSIVE ArtifactScan(_, _, _, _, _)
ArtifactScan(rels, artifact_root, task_id, files, acc) ==
    IF rels = <<>> THEN acc
    ELSE LET rel_clean == LStripChars(Strip(Head(rels)), {"/"})
             ph == _phase_for_artifact(rel_clean)
             rest == Tail(rels)
         IN IF rel_clean = "" THEN ArtifactScan(rest, artifact_root, task_id, files, acc)
            ELSE IF PathExists(files, ArtifactPath(artifact_root, task_id, rel_clean))
            THEN ArtifactScan(rest, artifact_root, task_id, files,
                     [acc EXCEPT !.existing_count = @ + 1])
            ELSE ArtifactScan(rest, artifact_root, task_id, files,
                     [acc EXCEPT !.missing = Append(@, rel_clean),
                                 !.phase_missing[ph] = Append(@, rel_clean)])

Finding(kind, severity, missing) == [kind |-> kind, severity |-> severity, missing |-> missing]

MissingCap == 120
PhaseCap == 60

RECURSIVE PhaseFindings(_, _)
PhaseFindings(phases, phase_missing) ==
    IF phases = <<>> THEN <<>>
    ELSE LET phase == Head(phases)
             m == phase_missing[phase]
         IN (IF m = <<>> THEN <<>>
             ELSE <<Finding("phase_incomplete_" \o phase, "error", Take(m, PhaseCap))>>)
            \o PhaseFindings(Tail(phases), phase_missing)

\* faulty variant: a missing report is not reported
VerificationFindingsUngated(verify_required, verify_report) ==
    IF ReportTruthy(verify_report)
       /\ Lower(StrOrEmpty(verify_report.score)) # "green"
    THEN <<Finding("verification_failed", "error", <<>>)>>
    ELSE <<>>

\* faulty variant: a report is demanded even when verify_required is false
VerificationFindingsAlwaysRequired(verify_required, verify_report) ==
    IF ~ReportTruthy(verify_report)
    THEN <<Finding("verification_missing", "error", <<>>)>>
    ELSE IF Lower(StrOrEmpty(verify_report.score)) # "green"
    THEN <<Finding("verification_failed", "error", <<>>)>>
    ELSE <<>>

\* the verification gate: at most one finding, from the persisted report only
VerificationFindings(verify_required, verify_report) ==
    IF verify_required /\ ~ReportTruthy(verify_report)
    THEN <<Finding("verification_missing", "error", <<>>)>>
    ELSE IF ReportTruthy(verify_report)
            /\ Lower(StrOrEmpty(verify_report.score)) # "green"
    THEN <<Finding("verification_failed", "error", <<>>)>>
    ELSE <<>>

\* verify_report.get(...) on a decoded value that is not a dict: AttributeError.
\* With verify_required and a falsy report the first branch is taken instead.
VerificationRaises(verify_required, verify_report) ==
    /\ verify_report # None
    /\ verify_report.c = "array"

HasSeverity(findings, sev) == \E i \in 1..Len(findings) : findings[i].severity = sev

\* faulty variant: error findings do not turn the score red
ScoreOfIgnoresErrors(findings) ==
    IF HasSeverity(findings, "warn") THEN "yellow" ELSE "green"

ScoreOf(findings) ==
    LET s1 == IF HasSeverity(findings, "warn") THEN "yellow" ELSE "green"
    IN IF HasSeverity(findings, "error") THEN "red" ELSE s1

Kinds(findings) == {findings[i].kind : i \in 1..Len(findings)}

RecMissing == "Fill missing redrift artifacts before adding new implementation scope"
RecPhase ==
    [ph \in Phases |->
        CASE ph = "analyze" -> "Complete analyze artifacts (inventory + constraints)"
          [] ph = "respec" -> "Complete v2 spec artifacts"
          [] ph = "design" -> "Complete architecture/ADR artifacts"
          [] OTHER -> "Complete migration/build plan artifacts"]
\* (the code wraps the command in backquotes, which a TLA+ string cannot hold)
RecVerifyMissing(task_id) == "Run ./.workgraph/redrift wg verify --task " \o task_id \o " --write-log"
RecVerifyFailed == "Fix failing verify commands/assertions and re-run redrift verify"
RecFollowups == "Resolve or close open redrift follow-up tasks before marking done"
RecSchema == "Set redrift schema = 1"

RECURSIVE PhaseRecs(_, _)
PhaseRecs(phases, phase_missing) ==
    IF phases = <<>> THEN <<>>
    ELSE (IF phase_missing[Head(phases)] # <<>> THEN <<RecPhase[Head(phases)]>> ELSE <<>>)
         \o PhaseRecs(Tail(phases), phase_missing)

\* keep the first occurrence of every action text
RECURSIVE DedupActions(_, _)
DedupActions(recs, seen) ==
    IF recs = <<>> THEN <<>>
    ELSE IF Head(recs) \in seen THEN DedupActions(Tail(recs), seen)
    ELSE <<Head(recs)>> \o DedupActions(Tail(recs), seen \cup {Head(recs)})

\* (the unsupported-schema recommendation moved to the front)
RecommendationsSchemaFirst(task_id, missing, phase_missing, findings) ==
    DedupActions(
        (IF "unsupported_schema" \in Kinds(findings) THEN <<RecSchema>> ELSE <<>>)
        \o (IF missing # <<>> THEN <<RecMissing>> ELSE <<>>)
        \o PhaseRecs(PHASE_ORDER, phase_missing)
        \o (IF "verification_missing" \in Kinds(findings) THEN <<RecVerifyMissing(task_id)>> ELSE <<>>)
        \o (IF "verification_failed" \in Kinds(findings) THEN <<RecVerifyFailed>> ELSE <<>>)
        \o (IF "unresolved_redrift_followups" \in Kinds(findings) THEN <<RecFollowups>> ELSE <<>>),
        {})

Recommendations(task_id, missing, phase_missing, findings) ==
    DedupActions(
        (IF missing # <<>> THEN <<RecMissing>> ELSE <<>>)
        \o PhaseRecs(PHASE_ORDER, phase_missing)
        \o (IF "verification_missing" \in Kinds(findings) THEN <<RecVerifyMissing(task_id)>> ELSE <<>>)
        \o (IF "verification_failed" \in Kinds(findings) THEN <<RecVerifyFailed>> ELSE <<>>)
        \o (IF "unresolved_redrift_followups" \in Kinds(findings) THEN <<RecFollowups>> ELSE <<>>)
        \o (IF "unsupported_schema" \in Kinds(findings) THEN <<RecSchema>> ELSE <<>>),
        {})

Raised == [raised |-> TRUE]

\* compute_redrift: reads the artifact files, the task log and the persisted
\* verification report; it writes nothing and runs nothing
compute_redrift(task_id, spec, files, g, vf) ==
    LET lineage == redrift_lineage(task_id)
        scan == ArtifactScan(spec.required_artifacts, spec.artifact_root, task_id, files,
                    [existing_count |-> 0, missing |-> <<>>, phase_missing |-> NoPhaseMissing])
        followups == _load_unresolved_followups(g, lineage.root, task_id)
        verify_required == spec.verify_required
        verify_report == load_verify_state(vf, task_id)
        findings ==
            (IF spec.schema # 1 THEN <<Finding("unsupported_schema", "error", <<>>)>> ELSE <<>>)
            \o (IF scan.missing # <<>>
                THEN <<Finding("missing_redrift_artifacts", "error", Take(scan.missing, MissingCap))>>
                ELSE <<>>)
            \o PhaseFindings(PHASE_ORDER, scan.phase_missing)
            \o (IF followups.unresolved # <<>>
                THEN <<Finding("unresolved_redrift_followups", "error", <<>>)>>
                ELSE <<>>)
            \o VerificationFindings(verify_required, verify_report)
    IN IF followups.raised THEN Raised
       ELSE IF VerificationRaises(verify_required, verify_report) THEN Raised
       ELSE [raised |-> FALSE,
             score |-> ScoreOf(findings),
             findings |-> findings,
             recommendations |-> Recommendations(task_id, scan.missing, scan.phase_missing, findings),
             telemetry |-> [required_count |-> Len(spec.required_artifacts),
                            existing_count |-> scan.existing_count,
                            missing_count |-> Len(scan.missing),
                            missing |-> scan.missing,
                            phase_missing |-> scan.phase_missing,
                            root_task_id |-> lineage.root,
                            lineage_depth |-> lineage.depth,
                            verify_required |-> verify_required,
                            verify_report_found |-> ReportTruthy(verify_report),
                            open_redrift_followups |-> Take(followups.unresolved, 30)]]

(***************************************************************************)
(* verify.py: the working tree as the assertions see it                    *)
(***************************************************************************)
\* The tree is a set of regular files, each with its path below project_dir
\* and its lines; a directory exists when a file lies below it.
TreeFile(path, lines) == [path |-> path, lines |-> lines]

IsFile(tree, path) == \E f \in tree : f.path = path

IsDir(tree, path) == \E f \in tree : StartsWith(f.path, path \o "/")

FileAt(tree, path) == CHOOSE f \in tree : f.path = path

_SKIP_DIRS ==
    { ".git",
      ".workgraph/.coredrift", ".workgraph/.speedrift", ".workgraph/.specdrift",
      ".workgraph/.datadrift", ".workgraph/.archdrift", ".workgraph/.depsdrift",
      ".workgraph/.uxdrift", ".workgraph/.therapydrift", ".workgraph/.yagnidrift",
      ".workgraph/.redrift",
      "node_modules", ".next", ".venv", "venv", "__pycache__" }

\* fnmatch.fnmatch for patterns built from literal characters, * and ?
\* (* also matches "/"; bracket expressions are not modelled)
RECURSIVE FnMatch(_, _)
FnMatch(name, pat) ==
    IF pat = "" THEN name = ""
    ELSE IF Head(pat) = "*"
         THEN FnMatch(name, Tail(pat)) \/ (name # "" /\ FnMatch(Tail(name), pat))
    ELSE IF Head(pat) = "?"
         THEN name # "" /\ FnMatch(Tail(name), Tail(pat))
    ELSE name # "" /\ Head(name) = Head(pat) /\ FnMatch(Tail(name), Tail(pat))

\* _walk_files: `order` lists the files of the tree in the order rglob yields them
_walk_files(order, include_patterns) ==
    SelectSeq(order, LAMBDA rel :
        /\ ~\E skip \in _SKIP_DIRS : rel = skip \/ StartsWith(rel, skip \o "/")
        /\ \E k \in 1..Len(include_patterns) : FnMatch(rel, include_patterns[k]))

DefaultInclude == <<"**/*.py", "**/*.ts", "**/*.tsx", "**/*.js", "**/*.jsx", "**/*.md", "**/*.toml">>

Digits == "0123456789"

IsDigit(c) == \E i \in 1..10 : Char(Digits, i) = c

DigitVal(c) == (CHOOSE i \in 1..10 : Char(Digits, i) = c) - 1

RECURSIVE ParseDigits(_, _)
ParseDigits(s, acc) == IF s = "" THEN acc ELSE ParseDigits(Tail(s), 10 * acc + DigitVal(Head(s)))

AllDigits(s) == s # "" /\ \A i \in 1..Len(s) : IsDigit(Char(s, i))

\* int(v) inside try/except: an integer as it is, a float truncated, a boolean
\* as 0 or 1, a decimal string parsed, anything else 0
IntOrZero(v) ==
    IF v.j \in {"num", "float", "bool"} THEN v.n
    ELSE IF v.j # "str" THEN 0
    ELSE LET t == Strip(v.s)
         IN IF AllDigits(t) THEN ParseDigits(t, 0)
            ELSE IF t # "" /\ Head(t) = "-" /\ AllDigits(Tail(t)) THEN 0 - ParseDigits(Tail(t), 0)
            ELSE IF t # "" /\ Head(t) = "+" /\ AllDigits(Tail(t)) THEN ParseDigits(Tail(t), 0)
            ELSE 0

\* whether int(v) returns rather than raises
IntParses(v) ==
    \/ v.j \in {"num", "float", "bool"}
    \/ /\ v.j = "str"
       /\ LET t == Strip(v.s)
          IN AllDigits(t) \/ (t # "" /\ Head(t) \in {"-", "+"} /\ AllDigits(Tail(t)))

(***************************************************************************)
(* verify.py: assertions                                                   *)
(***************************************************************************)
NoInclude == [islist |-> FALSE, items |-> <<>>]
IncludeList(items) == [islist |-> TRUE, items |-> items]

\* an entry of verify_assertions: a table with optional members, or something
\* that is not a table
Assertion(kind, path, max, pattern, include) ==
    [isdict |-> TRUE, kind |-> kind, type |-> JMissing, path |-> path, max |-> max,
     pattern |-> pattern, include |-> include]

NonDictAssertion ==
    [isdict |-> FALSE, kind |-> JMissing, type |-> JMissing, path |-> JMissing, max |-> JMissing,
     pattern |-> JMissing, include |-> NoInclude]

Row(kind, ok, hits) == [raised |-> FALSE, kind |-> kind, ok |-> ok, hits |-> hits]

\* opening a directory for reading raises IsADirectoryError
RowRaised(kind) == [raised |-> TRUE, kind |-> kind, ok |-> FALSE, hits |-> <<>>]

_assert_max_lines(tree, assertion) ==
    LET path == Strip(StrOrEmpty(assertion.path))
        max_lines == IntOrZero(assertion.max)
    IN IF path = "" \/ max_lines <= 0 THEN Row("max_lines", FALSE, <<>>)
       ELSE IF IsFile(tree, path)
            THEN Row("max_lines", Len(FileAt(tree, path).lines) <= max_lines, <<>>)
       ELSE IF IsDir(tree, path) THEN RowRaised("max_lines")
       ELSE Row("max_lines", FALSE, <<>>)

_assert_file_exists(tree, assertion) ==
    LET path == Strip(StrOrEmpty(assertion.path))
    IN IF path = "" THEN Row("file_exists", FALSE, <<>>)
       ELSE Row("file_exists", IsFile(tree, path) \/ IsDir(tree, path), <<>>)

\* re.compile fails on these; every other pattern of the model is a literal
InvalidRegexes == {"(", "[", "*"}

\* rx.search(content): 0 when nothing matches, else the 1-based line of the
\* first match of the literal
RECURSIVE FirstMatchLine(_, _, _)
FirstMatchLine(lines, pattern, n) ==
    IF lines = <<>> THEN 0
    ELSE IF Contains(pattern, Head(lines)) THEN n
    ELSE FirstMatchLine(Tail(lines), pattern, n + 1)

\* faulty variant: only the first candidate file is searched
CollectHitsFirstFileOnly(tree, candidates, pattern, require_hit) ==
    IF candidates = <<>> THEN <<>>
    ELSE LET rel == Head(candidates)
             line == FirstMatchLine(FileAt(tree, rel).lines, pattern, 1)
         IN IF line = 0 THEN <<>> ELSE <<[path |-> rel, line |-> line]>>

\* the loop over the candidate files; forbid_pattern stops at the first hit
RECURSIVE CollectHits(_, _, _, _)
CollectHits(tree, candidates, pattern, require_hit) ==
    IF candidates = <<>> THEN <<>>
    ELSE LET rel == Head(candidates)
             line == FirstMatchLine(FileAt(tree, rel).lines, pattern, 1)
         IN IF line = 0 THEN CollectHits(tree, Tail(candidates), pattern, require_hit)
            ELSE IF ~require_hit THEN <<[path |-> rel, line |-> line]>>
            ELSE <<[path |-> rel, line |-> line]>>
                 \o CollectHits(tree, Tail(candidates), pattern, require_hit)

RECURSIVE StripAll(_)
StripAll(items) ==
    IF items = <<>> THEN <<>>
    ELSE (IF Strip(Head(items)) # "" THEN <<Strip(Head(items))>> ELSE <<>>) \o StripAll(Tail(items))

HitsCap == 20

_pattern_assertion(tree, order, assertion, require_hit) ==
    LET pattern == Strip(StrOrEmpty(assertion.pattern))
        given == IF assertion.include.islist THEN StripAll(assertion.include.items) ELSE <<>>
        include_patterns == IF given # <<>> THEN given ELSE DefaultInclude
        kind == IF require_hit THEN "require_pattern" ELSE "forbid_pattern"
        hits == CollectHits(tree, _walk_files(order, include_patterns), pattern, require_hit)
    IN IF pattern = "" THEN Row(kind, FALSE, <<>>)
       ELSE IF pattern \in InvalidRegexes THEN Row(kind, FALSE, <<>>)
       ELSE Row(kind, IF require_hit THEN hits # <<>> ELSE hits = <<>>, Take(hits, HitsCap))

_run_assertion(tree, order, assertion) ==
    LET first == IF Truthy(assertion.kind) THEN assertion.kind ELSE assertion.type
        kind == Lower(Strip(StrOrEmpty(first)))
    IN CASE kind = "max_lines" -> _assert_max_lines(tree, assertion)
         [] kind = "file_exists" -> _assert_file_exists(tree, assertion)
         [] kind = "forbid_pattern" -> _pattern_assertion(tree, order, assertion, FALSE)
         [] kind = "require_pattern" -> _pattern_assertion(tree, order, assertion, TRUE)
         [] OTHER -> Row(IF kind # "" THEN kind ELSE "unknown", FALSE, <<>>)

(***************************************************************************)
(* verify.py: commands and run_verify                                      *)
(***************************************************************************)
\* what `bash -lc command` exits with in the given tree
ExitCodeOf(command, tree) ==
    CASE command = "true" -> 0
      [] command = "false" -> 1
      [] command = "rm -f src/app.ts" -> 0
      [] command = "test -f src/app.ts" -> IF IsFile(tree, "src/app.ts") THEN 0 ELSE 1
      [] command = "! grep -q python3 src/app.ts" ->
            IF IsFile(tree, "src/app.ts")
               /\ FirstMatchLine(FileAt(tree, "src/app.ts").lines, "python3", 1) # 0
            THEN 1 ELSE 0
      [] OTHER -> 127

\* the tree a command leaves behind: it runs with cwd = project_dir
TreeAfter(command, tree) ==
    IF command = "rm -f src/app.ts" THEN {f \in tree : f.path # "src/app.ts"} ELSE tree

_run_command(tree, command) ==
    LET code == ExitCodeOf(command, tree)
    IN [command |-> command, exit_code |-> code, ok |-> code = 0]

VFinding(kind) == [kind |-> kind, severity |-> "error"]

\* the loop over the commands: each runs in the tree the previous one left
RECURSIVE RunCommands(_, _)
RunCommands(tree, commands) ==
    IF commands = <<>> THEN [rows |-> <<>>, findings |-> <<>>, tree |-> tree]
    ELSE LET row == _run_command(tree, Head(commands))
             rest == RunCommands(TreeAfter(Head(commands), tree), Tail(commands))
         IN [rows |-> <<row>> \o rest.rows,
             findings |-> (IF ~row.ok THEN <<VFinding("verify_command_failed")>> ELSE <<>>)
                          \o rest.findings,
             tree |-> rest.tree]

RECURSIVE RunAssertions(_, _, _)
RunAssertions(tree, order, assertions) ==
    IF assertions = <<>> THEN [raised |-> FALSE, rows |-> <<>>, findings |-> <<>>]
    ELSE LET row == _run_assertion(tree, order, Head(assertions))
             rest == RunAssertions(tree, order, Tail(assertions))
         IN IF row.raised \/ rest.raised THEN [raised |-> TRUE, rows |-> <<>>, findings |-> <<>>]
            ELSE [raised |-> FALSE,
                  rows |-> <<row>> \o rest.rows,
                  findings |-> (IF ~row.ok THEN <<VFinding("verify_assertion_failed")>> ELSE <<>>)
                               \o rest.findings]

CountFailed(rows) == Cardinality({i \in 1..Len(rows) : ~rows[i].ok})

\* faulty variant: configured assertions are not taken into account
VerifyUnconfiguredIgnoresAssertions(verify_required, commands, assertions) ==
    IF verify_required /\ commands = <<>>
    THEN <<VFinding("verify_unconfigured")>> ELSE <<>>

\* the check made before anything runs: a required gate with nothing to check
VerifyUnconfigured(verify_required, commands, assertions) ==
    IF verify_required /\ commands = <<>> /\ assertions = <<>>
    THEN <<VFinding("verify_unconfigured")>> ELSE <<>>

\* the report run_verify builds once both loops are done
VerifyReport(task_id, spec, command_results, assertion_results, findings) ==
    [raised |-> FALSE,
     task_id |-> task_id,
     score |-> IF findings = <<>> THEN "green" ELSE "red",
     required |-> spec.verify_required,
     commands |-> command_results,
     assertions |-> assertion_results,
     findings |-> findings,
     summary |-> [commands_total |-> Len(command_results),
                  commands_failed |-> CountFailed(command_results),
                  assertions_total |-> Len(assertion_results),
                  assertions_failed |-> CountFailed(assertion_results)]]

run_verify(task_id, spec, tree, order) ==
    LET commands == StripAll(spec.verify_commands)
        assertions == SelectSeq(spec.verify_assertions, LAMBDA x : x.isdict)
        unconfigured == VerifyUnconfigured(spec.verify_required, commands, assertions)
        cmd == RunCommands(tree, commands)
        asr == RunAssertions(cmd.tree, order, assertions)
        findings == unconfigured \o cmd.findings \o asr.findings
    IN IF asr.raised THEN Raised
       ELSE VerifyReport(task_id, spec, cmd.rows, asr.rows, findings)

\* write_verify_state: json.dumps of a report is an object with a score and
\* other members, stored at the path of the task's key
write_verify_state(files, task_id, report) ==
    [files EXCEPT ![verify_state_path(task_id)] = VObject(JStr(report.score), TRUE)]

\* how a write of a state file ended: whether the file system refused it and
\* whether the error reached the caller
WriteOutcome(target, failed, raised) == [target |-> target, failed |-> failed, raised |-> raised]

\* write_verify_state on a file system that accepts the write or refuses it
\* (mkdir or write_text raises OSError): nothing catches the error
write_verify_state_on(files, task_id, report, writable) ==
    IF writable
    THEN [raised |-> FALSE, files |-> write_verify_state(files, task_id, report)]
    ELSE [raised |-> TRUE, files |-> files]

(***************************************************************************)
(* Inputs of the specifications                                            *)
(***************************************************************************)
\* specs.py: the default of required_artifacts
DefaultArtifacts ==
    << "analyze/inventory.md", "analyze/constraints.md", "respec/v2-spec.md",
       "design/v2-architecture.md", "design/adr.md", "build/migration-plan.md" >>

DefaultArtifactRoot == ".workgraph/.redrift"

DriftTaskIds == {"t1", "redrift-v2-t1"}

\* task ids as branch-like names; two of them differ only in characters that
\* _safe_task_key rewrites
GateTaskIds == {"t1", "api/v2", "api__v2"}

VerifyPaths == {verify_state_path(t) : t \in DriftTaskIds \cup GateTaskIds}

TreeClean ==
    { TreeFile("src/app.ts", <<"export const x = 1;">>),
      TreeFile("node_modules/dep/index.js", <<"#!/usr/bin/env python3">>) }

TreeDirty ==
    { TreeFile("src/app.ts", <<"export const x = 1;", "// run with python3">>),
      TreeFile("node_modules/dep/index.js", <<"#!/usr/bin/env python3">>),
      TreeFile("docs/notes.md", <<"python3 is required">>) }

Trees == {{}, TreeClean, TreeDirty}

NothingPersisted == [t \in GateTaskIds |-> None]

NoVerifyFiles == [p \in VerifyPaths |-> VAbsent]

IdleLineage ==
    /\ lin_task = ""
    /\ lin_first = None
    /\ lin_second = None

IdleFollowups ==
    /\ fu_call = None
    /\ fu_out = None

\* a repository with one commit and nothing changed since
CleanRepo == [changed |-> {}, commits |-> <<>>]

IdleDrift ==
    /\ dr_call = None
    /\ dr_out = None

IdleVerify ==
    /\ worktree = TreeClean
    /\ vr_call = None
    /\ vr_run = None
    /\ vr_out = None
    /\ persisted = NothingPersisted

EmptyProject ==
    /\ disk = {}
    /\ graph = NoGraph
    /\ vfiles = NoVerifyFiles
    /\ last_json = None
    /\ wg_log = <<>>
    /\ wr_out = None
    /\ ex_call = None
    /\ ex_out = None
    /\ wg_tasks = <<>>
    /\ repo = CleanRepo

(***************************************************************************)
(* SpecLineage: redrift_lineage applied to generated task ids, then to the *)
(* root it returned                                                        *)
(***************************************************************************)
LineageRoots == {"root", "t1", ""}

RECURSIVE Stacked(_)
Stacked(n) ==
    IF n = 0 THEN LineageRoots
    ELSE Stacked(n - 1) \cup {p \o s : p \in FollowupPrefixes, s \in Stacked(n - 1)}

LineageTaskIds ==
    Stacked(MaxPrefixes)
    \cup {Repeat("redrift-v2-", LineageCap) \o "root", Repeat("redrift-v2-", LineageCap + 1) \o "root"}

InitLineage ==
    /\ lin_task \in LineageTaskIds
    /\ lin_first = None
    /\ lin_second = None
    /\ EmptyProject
    /\ IdleFollowups
    /\ IdleDrift
    /\ IdleVerify

Resolve ==
    /\ lin_first = None
    /\ lin_first' = redrift_lineage(lin_task)
    /\ UNCHANGED <<lin_task, lin_second>>
    /\ UNCHANGED <<fsVars, fuVars, drVars, vrVars, cliVars, exVars>>

ResolveAgain ==
    /\ lin_first # None
    /\ lin_second = None
    /\ lin_second' = redrift_lineage(lin_first.root)
    /\ UNCHANGED <<lin_task, lin_first>>
    /\ UNCHANGED <<fsVars, fuVars, drVars, vrVars, cliVars, exVars>>

NextTask ==
    /\ lin_second # None
    /\ lin_task' \in LineageTaskIds
    /\ lin_first' = None
    /\ lin_second' = None
    /\ UNCHANGED <<fsVars, fuVars, drVars, vrVars, cliVars, exVars>>

NextLineage == Resolve \/ ResolveAgain \/ NextTask

SpecLineage == InitLineage /\ [][NextLineage]_vars

(***************************************************************************)
(* SpecFollowups: the task log grows line by line (it is append-only) and  *)
(* the follow-up audit is run on it for a task                             *)
(***************************************************************************)
LogLines ==
    { BlankLine, InvalidLine, NonObjectLine,
      ObjectLine(JStr("task"), JStr("redrift-v2-root"), JStr("open")),
      ObjectLine(JStr("task"), JStr("redrift-v2-root"), JStr(" Done ")),
      ObjectLine(JStr("task"), JStr("redrift-v2-xroot"), JMissing),
      ObjectLine(JStr("task"), JStr("redrift-analyze-redrift-v2-root"), JStr("in-progress")),
      ObjectLine(JStr("task"), JStr("drift-therapy-redrift-root"), JStr("abandoned")),
      ObjectLine(JStr("task"), JStr("redrift-v2-other"), JStr("blocked")),
      ObjectLine(JStr("task"), JStr("root"), JStr("open")),
      ObjectLine(JStr("note"), JStr("redrift-v2-root"), JStr("open")),
      ObjectLine(JMissing, JStr("redrift-respec-root"), JNull),
      ObjectLine(JStr("task"), JNum(7), JStr("open")) }

FollowupTaskIds == {"root", "redrift-v2-root", "other"}

InitFollowups ==
    /\ IdleLineage
    /\ EmptyProject
    /\ IdleFollowups
    /\ IdleDrift
    /\ IdleVerify

\* another process appends a record to graph.jsonl
AppendLogLine ==
    /\ fu_out = None
    /\ Len(graph.lines) < MaxLogLines
    /\ \E line \in LogLines : graph' = [exists |-> TRUE, lines |-> Append(graph.lines, line)]
    /\ UNCHANGED <<disk, vfiles>>
    /\ UNCHANGED <<linVars, fuVars, drVars, vrVars, cliVars, exVars>>

\* compute_redrift's call: the root comes from redrift_lineage(task_id)
LoadFollowups ==
    /\ fu_out = None
    /\ \E task_id \in FollowupTaskIds :
          LET root_task_id == redrift_lineage(task_id).root
          IN /\ fu_call' = [task_id |-> task_id, root_task_id |-> root_task_id]
             /\ fu_out' = _load_unresolved_followups(graph, root_task_id, task_id)
    /\ UNCHANGED <<linVars, fsVars, drVars, vrVars, cliVars, exVars>>

FollowupsReturn ==
    /\ fu_out # None
    /\ fu_call' = None
    /\ fu_out' = None
    /\ UNCHANGED <<linVars, fsVars, drVars, vrVars, cliVars, exVars>>

NextFollowups == AppendLogLine \/ LoadFollowups \/ FollowupsReturn

SpecFollowups == InitFollowups /\ [][NextFollowups]_vars

\* the entries the last audit reported
Reported == IF fu_out = None \/ fu_out.raised THEN {}
            ELSE {fu_out.unresolved[i] : i \in 1..Len(fu_out.unresolved)}

TaskRecordIds ==
    {StrOrEmpty(graph.lines[i].id) : i \in {k \in 1..Len(graph.lines) :
        graph.lines[k].t = "object" /\ StrOrEmpty(graph.lines[k].kind) = "task"}}

(***************************************************************************)
(* C8 as stated: every reported entry is an unresolved descendant of the   *)
(* root task: its id differs from the evaluated task id, its lineage       *)
(* resolves to the same root task id, and its normalized status is neither *)
(* done nor abandoned; tasks of a different root are never reported.       *)
(***************************************************************************)
C8_ReportedAreDescendants ==
    \A e \in Reported :
        /\ e.id # fu_call.task_id
        /\ redrift_lineage(e.id).root = fu_call.root_task_id
        /\ e.status \notin {"done", "abandoned"}

(***************************************************************************)
(* C8 amended: every reported entry is a task record of the log whose id   *)
(* differs from the evaluated task id, contains the root task id as a      *)
(* substring, starts with redrift- or drift-therapy-redrift-, and whose    *)
(* normalized status is neither done nor abandoned.                        *)
(***************************************************************************)
C8_ReportedMatchFilter ==
    \A e \in Reported :
        /\ e.id \in TaskRecordIds
        /\ e.id # fu_call.task_id
        /\ Contains(fu_call.root_task_id, e.id)
        /\ StartsWith(e.id, "redrift-") \/ StartsWith(e.id, "drift-therapy-redrift-")
        /\ e.status \notin {"done", "abandoned"}

\* an audit reported a task whose lineage root is not the evaluated root
C8_Witness ==
    \E e \in Reported : redrift_lineage(e.id).root # fu_call.root_task_id

Malformed(line) == line.t \in {"blank", "invalid", "nonobj"}

WithoutMalformed(g) ==
    [exists |-> g.exists, lines |-> SelectSeq(g.lines, LAMBDA l : ~Malformed(l))]

(***************************************************************************)
(* C9: for any task log content (blank lines, lines that are not JSON,     *)
(* JSON values that are not objects, records lacking kind/id/status) the   *)
(* audit returns without raising, its result equals the result for the log *)
(* with the malformed lines removed, and a missing log gives an empty list. *)
(***************************************************************************)
C9_MalformedLinesSkipped ==
    fu_out # None =>
        /\ ~fu_out.raised
        /\ fu_out = _load_unresolved_followups(WithoutMalformed(graph),
                        fu_call.root_task_id, fu_call.task_id)
        /\ ~graph.exists => fu_out.unresolved = <<>>

(***************************************************************************)
(* SpecDrift: artifact files, the task log and the persisted verification  *)
(* report change between invocations; compute_redrift evaluates a task     *)
(***************************************************************************)
RedriftSpec(schema, required_artifacts, verify_required) ==
    [schema |-> schema,
     artifact_root |-> DefaultArtifactRoot,
     required_artifacts |-> required_artifacts,
     create_phase_followups |-> TRUE,
     verify_required |-> verify_required,
     verify_commands |-> <<>>,
     verify_assertions |-> <<>>,
     max_followup_depth |-> 1]

\* the last list is one a caller builds without from_raw: a blank entry, a
\* leading slash and a duplicate
RequiredLists ==
    { DefaultArtifacts,
      <<>>,
      <<"foo/custom.md", "Analyze/Notes.md">>,
      <<" ", "/design/adr.md", "design/adr.md">> }

DriftSpecs ==
    {RedriftSpec(schema, req, vr) : schema \in {1, 2}, req \in RequiredLists, vr \in BOOLEAN}

\* the files that come and go: the default artifacts of task t1
ArtifactUniverse ==
    {ArtifactPath(DefaultArtifactRoot, "t1", DefaultArtifacts[i]) : i \in 1..Len(DefaultArtifacts)}

DriftLogLines ==
    { NonObjectLine,
      ObjectLine(JStr("task"), JStr("redrift-v2-t1"), JStr("open")),
      ObjectLine(JStr("task"), JStr("redrift-analyze-t1"), JStr("done")) }

VerifyContents ==
    { VAbsent, VCorrupt, VArray,
      VObject(JMissing, FALSE),          \* {}
      VObject(JMissing, TRUE),           \* {"summary": ...}
      VObject(JStr("green"), TRUE),
      VObject(JStr("GREEN"), FALSE),
      VObject(JStr("red"), TRUE) }

InitDrift ==
    /\ IdleLineage
    /\ EmptyProject
    /\ IdleFollowups
    /\ IdleDrift
    /\ IdleVerify

CreateArtifactOf(files) ==
    /\ dr_out = None
    /\ \E f \in files \ disk : disk' = disk \cup {f}
    /\ UNCHANGED <<graph, vfiles>>
    /\ UNCHANGED <<linVars, fuVars, drVars, vrVars, cliVars, exVars>>

CreateArtifact == CreateArtifactOf(ArtifactUniverse)

RemoveArtifact ==
    /\ dr_out = None
    /\ \E f \in disk : disk' = disk \ {f}
    /\ UNCHANGED <<graph, vfiles>>
    /\ UNCHANGED <<linVars, fuVars, drVars, vrVars, cliVars, exVars>>

\* another process appends a record to graph.jsonl
DriftLogAppend ==
    /\ dr_out = None
    /\ Len(graph.lines) < MaxDriftLog
    /\ \E line \in DriftLogLines : graph' = [exists |-> TRUE, lines |-> Append(graph.lines, line)]
    /\ UNCHANGED <<disk, vfiles>>
    /\ UNCHANGED <<linVars, fuVars, drVars, vrVars, cliVars, exVars>>

\* the verify-state file of t1 is written, damaged or removed
VerifyFileBecomes ==
    /\ dr_out = None
    /\ \E c \in VerifyContents : vfiles' = [vfiles EXCEPT ![verify_state_path("t1")] = c]
    /\ vfiles' # vfiles
    /\ UNCHANGED <<disk, graph>>
    /\ UNCHANGED <<linVars, fuVars, drVars, vrVars, cliVars, exVars>>

\* an invocation of compute_redrift for one of `tasks` under one of `specs`
ComputeRedriftOf(tasks, specs) ==
    /\ dr_out = None
    /\ \E task_id \in tasks, spec \in specs :
          /\ dr_call' = [task_id |-> task_id, spec |-> spec]
          /\ dr_out' = compute_redrift(task_id, spec, disk, graph, vfiles)
    /\ UNCHANGED <<linVars, fsVars, fuVars, vrVars, cliVars, exVars>>

ComputeRedrift == ComputeRedriftOf(DriftTaskIds, DriftSpecs)

DriftReturn ==
    /\ dr_out # None
    /\ dr_call' = None
    /\ dr_out' = None
    /\ UNCHANGED <<linVars, fsVars, fuVars, vrVars, cliVars, exVars>>

NextDrift ==
    \/ CreateArtifact
    \/ RemoveArtifact
    \/ DriftLogAppend
    \/ VerifyFileBecomes
    \/ ComputeRedrift
    \/ DriftReturn

Spec == InitDrift /\ [][NextDrift]_vars

\* compute_redrift returned a report (the project files are those it read:
\* they change only between invocations)
Returned == dr_out # None /\ ~dr_out.raised

\* the verify-state file of the evaluated task
PersistedFile == vfiles[verify_state_path(dr_call.task_id)]

\* the required artifacts as the code cleans them, blanks dropped
CleanRequired ==
    {LStripChars(Strip(dr_call.spec.required_artifacts[i]), {"/"}) :
        i \in 1..Len(dr_call.spec.required_artifacts)} \ {""}

MissingRequired ==
    {rel \in CleanRequired :
        ~PathExists(disk, ArtifactPath(dr_call.spec.artifact_root, dr_call.task_id, rel))}

CountKind(findings, kind) == Cardinality({i \in 1..Len(findings) : findings[i].kind = kind})

(***************************************************************************)
(* C1: when verify_required is true, compute_redrift scores green only if  *)
(* a persisted verification report for the task exists and its score is    *)
(* green (compared as the code compares it, ignoring letter case); with    *)
(* all artifacts present but no persisted report it emits a                *)
(* verification_missing error finding and scores red.                      *)
(***************************************************************************)
C1_VerificationGate ==
    (Returned /\ dr_call.spec.verify_required) =>
        /\ dr_out.score = "green" =>
              /\ PersistedFile.c = "object"
              /\ PersistedFile.score.j = "str"
              /\ Lower(PersistedFile.score.s) = "green"
        /\ (MissingRequired = {} /\ PersistedFile.c = "absent") =>
              /\ \E i \in 1..Len(dr_out.findings) :
                    /\ dr_out.findings[i].kind = "verification_missing"
                    /\ dr_out.findings[i].severity = "error"
              /\ dr_out.score = "red"

\* all six default artifacts on disk, verification required, nothing persisted
C1_Witness ==
    /\ Returned
    /\ dr_call.spec.verify_required
    /\ dr_call.spec.required_artifacts = DefaultArtifacts
    /\ MissingRequired = {}
    /\ PersistedFile.c = "absent"
    /\ Kinds(dr_out.findings) = {"verification_missing"}
    /\ dr_out.score = "red"

(***************************************************************************)
(* C3: whenever a persisted verification report exists for the task and    *)
(* its score is not green (including a report with no score field),        *)
(* compute_redrift emits a verification_failed error finding and scores    *)
(* red, whether or not verify_required is set.                             *)
(***************************************************************************)
C3_NonGreenReportFails ==
    (Returned /\ PersistedFile.c = "object"
              /\ Lower(StrOrEmpty(PersistedFile.score)) # "green") =>
        /\ \E i \in 1..Len(dr_out.findings) :
              /\ dr_out.findings[i].kind = "verification_failed"
              /\ dr_out.findings[i].severity = "error"
        /\ dr_out.score = "red"

(***************************************************************************)
(* C4: the score compute_redrift returns is green iff the findings list is *)
(* empty, red iff at least one finding has severity error, and yellow iff  *)
(* findings exist and all of them have severity warn.                      *)
(***************************************************************************)
C4_ScoreRule ==
    Returned =>
        LET f == dr_out.findings
            n == Len(f)
        IN /\ dr_out.score \in {"green", "yellow", "red"}
           /\ dr_out.score = "green" <=> n = 0
           /\ dr_out.score = "red" <=> \E i \in 1..n : f[i].severity = "error"
           /\ dr_out.score = "yellow" <=> (n > 0 /\ \A i \in 1..n : f[i].severity = "warn")

\* a report with findings and one without have both been scored
C4_Witness ==
    /\ Returned
    /\ Len(dr_out.findings) >= 2
    /\ dr_out.score = "red"

\* the phase each path of RequiredLists belongs to, written out by hand
ExpectedPhase(rel) ==
    CASE rel \in {"analyze/inventory.md", "analyze/constraints.md", "Analyze/Notes.md"} -> "analyze"
      [] rel = "respec/v2-spec.md" -> "respec"
      [] rel \in {"design/v2-architecture.md", "design/adr.md"} -> "design"
      [] rel \in {"build/migration-plan.md", "foo/custom.md"} -> "build"

SeqRange(seq) == {seq[i] : i \in 1..Len(seq)}

(***************************************************************************)
(* C5: compute_redrift emits exactly one missing_redrift_artifacts finding *)
(* iff at least one required artifact does not exist at                    *)
(* project_dir/artifact_root/task_id/<path>, exactly one                   *)
(* phase_incomplete_<phase> finding for each phase that has a missing      *)
(* artifact and none for the other phases; every missing artifact is in    *)
(* the phase-missing map under exactly one phase (unknown first segments   *)
(* under build); with none of the six default artifacts on disk all four   *)
(* phase_incomplete_* findings are present and the score is red.           *)
(***************************************************************************)
C5_ArtifactFindings ==
    Returned =>
        LET f == dr_out.findings
            pm == dr_out.telemetry.phase_missing
        IN /\ CountKind(f, "missing_redrift_artifacts") = (IF MissingRequired # {} THEN 1 ELSE 0)
           /\ \A ph \in Phases :
                 CountKind(f, "phase_incomplete_" \o ph)
                    = (IF \E rel \in MissingRequired : ExpectedPhase(rel) = ph THEN 1 ELSE 0)
           /\ \A rel \in MissingRequired :
                 {ph \in Phases : rel \in SeqRange(pm[ph])} = {ExpectedPhase(rel)}
           /\ \A ph \in Phases : SeqRange(pm[ph]) \subseteq MissingRequired
           /\ (dr_call.spec.required_artifacts = DefaultArtifacts
               /\ MissingRequired = SeqRange(DefaultArtifacts)) =>
                 /\ {"phase_incomplete_" \o ph : ph \in Phases} \subseteq Kinds(f)
                 /\ dr_out.score = "red"

\* some, not all, default artifacts are missing, in some but not all phases
C5_Witness ==
    /\ Returned
    /\ dr_call.spec.required_artifacts = DefaultArtifacts
    /\ "phase_incomplete_design" \in Kinds(dr_out.findings)
    /\ "phase_incomplete_analyze" \notin Kinds(dr_out.findings)
    /\ Len(dr_out.telemetry.phase_missing["design"]) = 1

NoRequiredArtifacts == CleanRequired = {}

PersistedQuiet ==
    \/ PersistedFile.c \in {"absent", "corrupt"}
    \/ PersistedFile = VObject(JMissing, FALSE)
    \/ PersistedFile.c = "object" /\ Lower(StrOrEmpty(PersistedFile.score)) = "green"

CommandLists ==
    { <<>>,
      <<" ", "">>,
      <<"true">>,
      <<"false", " test -f src/app.ts ">>,
      <<"! grep -q python3 src/app.ts">> }

TsInclude == IncludeList(<<"src/**/*.ts">>)

AssertionLists ==
    { <<>>,
      <<NonDictAssertion>>,
      <<Assertion(JStr("max_lines"), JStr("src/app.ts"), JNum(1), JMissing, NoInclude)>>,
      <<Assertion(JStr("forbid_pattern"), JMissing, JMissing, JStr("python3"), TsInclude),
        Assertion(JStr("file_exists"), JStr("src"), JMissing, JMissing, NoInclude)>>,
      <<Assertion(JStr("require_pattern"), JMissing, JMissing, JStr("python3"), NoInclude)>>,
      <<Assertion(JStr("line_count"), JStr("src/app.ts"), JNum(1), JMissing, NoInclude)>> }

VerifySpecs ==
    {[RedriftSpec(1, DefaultArtifacts, vr) EXCEPT !.verify_commands = cmds,
                                                  !.verify_assertions = asrs] :
        vr \in BOOLEAN, cmds \in CommandLists, asrs \in AssertionLists}

\* the orders in which rglob may yield the files of a tree
WalkOrders(tree) ==
    LET paths == {f.path : f \in tree}
        n == Cardinality(paths)
    IN {o \in [1..n -> paths] : \A i, j \in 1..n : i # j => o[i] # o[j]}

InitVerify ==
    /\ IdleLineage
    /\ EmptyProject
    /\ IdleFollowups
    /\ IdleDrift
    /\ IdleVerify

\* files of the working tree are edited, added or removed
TreeChange ==
    /\ dr_out = None
    /\ vr_run = None
    /\ vr_out = None
    /\ \E t \in Trees \ {worktree} : worktree' = t
    /\ UNCHANGED <<vr_call, vr_run, vr_out, persisted>>
    /\ UNCHANGED <<linVars, fsVars, fuVars, drVars, cliVars, exVars>>

\* an invocation of run_verify for one of `tasks` under one of `specs`
RunVerifyOf(tasks, specs) ==
    /\ dr_out = None
    /\ vr_run = None
    /\ vr_out = None
    /\ \E task_id \in tasks, spec \in specs :
          LET after == RunCommands(worktree, StripAll(spec.verify_commands)).tree
          IN \E order \in WalkOrders(after) :
                /\ vr_call' = [task_id |-> task_id, spec |-> spec]
                /\ vr_out' = run_verify(task_id, spec, worktree, order)
                /\ worktree' = after
    /\ UNCHANGED <<vr_run, persisted>>
    /\ UNCHANGED <<linVars, fsVars, fuVars, drVars, cliVars, exVars>>

RunVerify == RunVerifyOf({"t1"}, VerifySpecs)

\* the caller drops the report without persisting it
VerifyDiscard ==
    /\ vr_out # None
    /\ vr_call' = None
    /\ vr_run' = None
    /\ vr_out' = None
    /\ UNCHANGED <<worktree, persisted>>
    /\ UNCHANGED <<linVars, fsVars, fuVars, drVars, cliVars, exVars>>

NextVerify == TreeChange \/ RunVerify \/ VerifyDiscard

SpecVerify == InitVerify /\ [][NextVerify]_vars

VerifyReturned == vr_out # None /\ ~vr_out.raised

\* verification is required and the specification has neither a non-blank
\* command nor an assertion record
NothingConfigured ==
    /\ vr_call.spec.verify_required
    /\ \A i \in 1..Len(vr_call.spec.verify_commands) : Strip(vr_call.spec.verify_commands[i]) = ""
    /\ \A i \in 1..Len(vr_call.spec.verify_assertions) : ~vr_call.spec.verify_assertions[i].isdict

(***************************************************************************)
(* C10: run_verify scores green iff its findings list is empty, else red,  *)
(* and it emits a verify_unconfigured error finding iff verify_required is *)
(* true and there are no non-blank commands and no assertion records; a    *)
(* required verification with nothing configured is never green.           *)
(***************************************************************************)
C10_VerifyScore ==
    VerifyReturned =>
        /\ vr_out.score = "green" <=> vr_out.findings = <<>>
        /\ vr_out.score # "green" => vr_out.score = "red"
        /\ VFinding("verify_unconfigured") \in SeqRange(vr_out.findings) <=> NothingConfigured
        /\ "verify_unconfigured" \in Kinds(vr_out.findings) <=> NothingConfigured
        /\ NothingConfigured => vr_out.score # "green"

\* required, only blank commands and a non-record assertion entry: red
C10_Witness ==
    /\ VerifyReturned
    /\ vr_call.spec.verify_required
    /\ vr_call.spec.verify_commands = <<" ", "">>
    /\ vr_call.spec.verify_assertions = <<NonDictAssertion>>
    /\ Kinds(vr_out.findings) = {"verify_unconfigured"}
    /\ vr_out.score = "red"

(***************************************************************************)
(* SpecGate: run_verify, write_verify_state, working-tree changes and      *)
(* compute_redrift in any order                                            *)
(***************************************************************************)
GateVerifySpecs ==
    {[RedriftSpec(1, <<>>, vr) EXCEPT !.verify_commands = <<"! grep -q python3 src/app.ts">>] :
        vr \in BOOLEAN}

GateRunVerify == RunVerifyOf(GateTaskIds, GateVerifySpecs)

\* the caller persists the report it holds, for the task it was computed for
WriteVerifyStateOn(writable) ==
    /\ dr_out = None
    /\ vr_out # None
    /\ ~vr_out.raised
    /\ LET w == write_verify_state_on(vfiles, vr_out.task_id, vr_out, writable)
       IN /\ vfiles' = w.files
          /\ persisted' = IF w.raised THEN persisted
                          ELSE [persisted EXCEPT
                                   ![vr_out.task_id] = VObject(JStr(vr_out.score), TRUE)]
          /\ wr_out' = WriteOutcome("verify", ~writable, w.raised)
    /\ vr_call' = None
    /\ vr_run' = None
    /\ vr_out' = None
    /\ UNCHANGED <<disk, graph, worktree, last_json, wg_log>>
    /\ UNCHANGED <<linVars, fuVars, drVars, exVars>>

\* (the file system accepts the write)
WriteVerifyState == WriteVerifyStateOn(TRUE)

GateCompute == ComputeRedriftOf(GateTaskIds, GateVerifySpecs)

NextGate ==
    \/ GateRunVerify
    \/ WriteVerifyState
    \/ VerifyDiscard
    \/ TreeChange
    \/ GateCompute
    \/ DriftReturn

SpecGate == InitVerify /\ [][NextGate]_vars

VerificationKinds == {"verification_missing", "verification_failed"}

(***************************************************************************)
(* C2: in any sequence of run_verify, write_verify_state, working-tree     *)
(* changes and compute_redrift calls, the verification finding of          *)
(* compute_redrift is determined only by the report most recently          *)
(* persisted for that task id: a run_verify result that was not persisted, *)
(* or a tree change after persisting, does not change the drift result.    *)
(***************************************************************************)
C2_OnlyPersistedReportCounts ==
    Returned =>
        SelectSeq(dr_out.findings, LAMBDA f : f.kind \in VerificationKinds)
            = VerificationFindings(dr_call.spec.verify_required, persisted[dr_call.task_id])

(***************************************************************************)
(* C7: redrift_lineage is idempotent and terminating: it returns after at  *)
(* most 20 strips, and resolving the root it returned again yields that    *)
(* same id with depth 0 (the returned root carries no follow-up prefix);   *)
(* redrift-exec-analyze-redrift-exec-build-root resolves to (root, 2).     *)
(***************************************************************************)
C7_LineageIdempotent ==
    /\ lin_first # None => lin_first.depth <= LineageCap
    /\ lin_second # None =>
          /\ lin_second.root = lin_first.root
          /\ lin_second.depth = 0
          /\ PrefixMatches(lin_first.root) = {}
    /\ (lin_first # None /\ lin_task = "redrift-exec-analyze-redrift-exec-build-root") =>
          lin_first = [root |-> "root", depth |-> 2]

(***************************************************************************)
(* SpecRun: run_verify step by step. Every command is one blocking         *)
(* subprocess.run in the working tree, every assertion one _run_assertion  *)
(* call; the run holds the loop positions and what it has collected.       *)
(***************************************************************************)
RunCommandLists ==
    { <<>>,
      <<"true">>,
      <<" ", "false", "true">>,
      <<"false", "rm -f src/app.ts", "test -f src/app.ts">> }

RunAssertionLists ==
    { <<>>,
      <<Assertion(JStr("file_exists"), JStr("src/app.ts"), JMissing, JMissing, NoInclude),
        Assertion(JStr("forbid_pattern"), JMissing, JMissing, JStr("python3"), NoInclude)>>,
      <<NonDictAssertion,
        Assertion(JStr("max_lines"), JStr("src/app.ts"), JNum(1), JMissing, NoInclude),
        Assertion(JMissing, JMissing, JMissing, JMissing, NoInclude)>>,
      <<Assertion(JStr("max_lines"), JStr("src"), JNum(1), JMissing, NoInclude)>> }

RunSpecs ==
    {[RedriftSpec(1, DefaultArtifacts, vr) EXCEPT !.verify_commands = cmds,
                                                  !.verify_assertions = asrs] :
        vr \in BOOLEAN, cmds \in RunCommandLists, asrs \in RunAssertionLists}

\* the locals of run_verify before the first loop
RunStart(task_id, spec, tree) ==
    LET commands == StripAll(spec.verify_commands)
        assertions == SelectSeq(spec.verify_assertions, LAMBDA x : x.isdict)
    IN [task_id |-> task_id,
        spec |-> spec,
        started_in |-> tree,
        listed |-> FALSE,
        order |-> <<>>,
        commands |-> commands,
        assertions |-> assertions,
        ci |-> 0,
        ai |-> 0,
        command_results |-> <<>>,
        assertion_results |-> <<>>,
        findings |-> VerifyUnconfigured(spec.verify_required, commands, assertions),
        events |-> <<>>]

\* faulty variant: the loop over the commands ends at the first failing command
CommandStepStopsOnFailure(run, tree) ==
    LET row == _run_command(tree, run.commands[run.ci + 1])
    IN [run EXCEPT !.ci = IF row.ok THEN @ + 1 ELSE Len(run.commands),
                   !.command_results = Append(@, row),
                   !.findings = IF ~row.ok THEN Append(@, VFinding("verify_command_failed")) ELSE @,
                   !.events = Append(@, [op |-> "command", i |-> run.ci + 1])]

\* one iteration of the loop over the commands
CommandStep(run, tree) ==
    LET row == _run_command(tree, run.commands[run.ci + 1])
    IN [run EXCEPT !.ci = @ + 1,
                   !.command_results = Append(@, row),
                   !.findings = IF ~row.ok THEN Append(@, VFinding("verify_command_failed")) ELSE @,
                   !.events = Append(@, [op |-> "command", i |-> run.ci + 1])]

\* one iteration of the loop over the assertions, given the row it produced
AssertionStep(run, order, row) ==
    [run EXCEPT !.ai = @ + 1,
                !.listed = TRUE,
                !.order = order,
                !.assertion_results = Append(@, row),
                !.findings = IF ~row.ok THEN Append(@, VFinding("verify_assertion_failed")) ELSE @,
                !.events = Append(@, [op |-> "assertion", i |-> run.ai + 1])]

BeginVerify ==
    /\ dr_out = None
    /\ vr_run = None
    /\ vr_out = None
    /\ \E spec \in RunSpecs :
          /\ vr_call' = [task_id |-> "t1", spec |-> spec]
          /\ vr_run' = RunStart("t1", spec, worktree)
    /\ UNCHANGED <<worktree, vr_out, persisted>>
    /\ UNCHANGED <<linVars, fsVars, fuVars, drVars, cliVars, exVars>>

RunNextCommand ==
    /\ vr_run # None
    /\ vr_out = None
    /\ vr_run.ci < Len(vr_run.commands)
    /\ vr_run' = CommandStep(vr_run, worktree)
    /\ worktree' = TreeAfter(vr_run.commands[vr_run.ci + 1], worktree)
    /\ UNCHANGED <<vr_call, vr_out, persisted>>
    /\ UNCHANGED <<linVars, fsVars, fuVars, drVars, cliVars, exVars>>

\* the directory listing order is fixed once the commands are done
RunNextAssertion ==
    /\ vr_run # None
    /\ vr_out = None
    /\ vr_run.ci = Len(vr_run.commands)
    /\ vr_run.ai < Len(vr_run.assertions)
    /\ \E order \in (IF vr_run.listed THEN {vr_run.order} ELSE WalkOrders(worktree)) :
          LET row == _run_assertion(worktree, order, vr_run.assertions[vr_run.ai + 1])
          IN IF row.raised
             THEN /\ vr_out' = Raised
                  /\ vr_run' = [vr_run EXCEPT !.listed = TRUE, !.order = order]
             ELSE /\ vr_out' = vr_out
                  /\ vr_run' = AssertionStep(vr_run, order, row)
    /\ UNCHANGED <<worktree, vr_call, persisted>>
    /\ UNCHANGED <<linVars, fsVars, fuVars, drVars, cliVars, exVars>>

EndVerify ==
    /\ vr_run # None
    /\ vr_out = None
    /\ vr_run.ci = Len(vr_run.commands)
    /\ vr_run.ai = Len(vr_run.assertions)
    /\ vr_out' = VerifyReport(vr_run.task_id, vr_run.spec, vr_run.command_results,
                     vr_run.assertion_results, vr_run.findings)
    /\ UNCHANGED <<worktree, vr_call, vr_run, persisted>>
    /\ UNCHANGED <<linVars, fsVars, fuVars, drVars, cliVars, exVars>>

NextRun ==
    \/ TreeChange
    \/ BeginVerify
    \/ RunNextCommand
    \/ RunNextAssertion
    \/ EndVerify
    \/ VerifyDiscard

SpecRun == InitVerify /\ [][NextRun]_vars

\* the configured commands and assertions: non-blank commands, stripped, and
\* the assertion entries that are tables
ConfiguredCommands == StripAll(vr_call.spec.verify_commands)

ConfiguredAssertions == SelectSeq(vr_call.spec.verify_assertions, LAMBDA x : x.isdict)

\* every command once, in order, then every assertion once, in order
ExpectedEvents ==
    [k \in 1..(Len(ConfiguredCommands) + Len(ConfiguredAssertions)) |->
        IF k <= Len(ConfiguredCommands)
        THEN [op |-> "command", i |-> k]
        ELSE [op |-> "assertion", i |-> k - Len(ConfiguredCommands)]]

RunReturned == vr_run # None /\ vr_out # None /\ ~vr_out.raised

(***************************************************************************)
(* C11: run_verify executes every configured command exactly once, in      *)
(* configured order, each after the previous one has completed, does not   *)
(* stop after a failing command, and evaluates the assertions only after   *)
(* all commands; the report has one result per command and per assertion   *)
(* in that order and exactly one verify_command_failed or                  *)
(* verify_assertion_failed finding per failing result, so the number of    *)
(* findings is commands_failed + assertions_failed, plus one when          *)
(* verify_unconfigured is reported. After `false`, `rm -f src/app.ts`,     *)
(* `test -f src/app.ts` the third command and a file_exists assertion on   *)
(* src/app.ts both fail: each step saw what the earlier ones left.         *)
(***************************************************************************)
C11_SequentialRun ==
    /\ vr_run # None =>
          vr_run.events = Take(ExpectedEvents, Len(vr_run.events))
    /\ RunReturned =>
          LET r == vr_out
              nc == Len(ConfiguredCommands)
              na == Len(ConfiguredAssertions)
              unconfigured == IF "verify_unconfigured" \in Kinds(r.findings) THEN 1 ELSE 0
          IN /\ vr_run.events = ExpectedEvents
             /\ Len(r.commands) = nc
             /\ \A i \in 1..nc : r.commands[i].command = ConfiguredCommands[i]
             /\ Len(r.assertions) = na
             /\ \A i \in 1..na :
                   r.assertions[i]
                       = _run_assertion(worktree, vr_run.order, ConfiguredAssertions[i])
             /\ r.summary.commands_failed
                   = Cardinality({i \in 1..nc : r.commands[i].exit_code # 0})
             /\ r.summary.assertions_failed
                   = Cardinality({i \in 1..na : ~r.assertions[i].ok})
             /\ CountKind(r.findings, "verify_command_failed") = r.summary.commands_failed
             /\ CountKind(r.findings, "verify_assertion_failed") = r.summary.assertions_failed
             /\ Len(r.findings)
                   = r.summary.commands_failed + r.summary.assertions_failed + unconfigured
             /\ r = run_verify(vr_call.task_id, vr_call.spec, vr_run.started_in, vr_run.order)
             /\ (ConfiguredCommands = <<"false", "rm -f src/app.ts", "test -f src/app.ts">>) =>
                   /\ r.commands[2].ok
                   /\ r.commands[3].exit_code = 1
                   /\ \A i \in 1..na :
                         (ConfiguredAssertions[i].kind = JStr("file_exists")
                          /\ ConfiguredAssertions[i].path = JStr("src/app.ts"))
                            => ~r.assertions[i].ok

\* a run whose first command failed went on to the later commands and to two
\* assertions, in a tree where the file existed when the run began
C11_Witness ==
    /\ RunReturned
    /\ ConfiguredCommands = <<"false", "rm -f src/app.ts", "test -f src/app.ts">>
    /\ IsFile(vr_run.started_in, "src/app.ts")
    /\ Len(vr_out.assertions) = 2
    /\ Len(vr_out.findings) = 3

(***************************************************************************)
(* SpecAssert: _run_assertion applied to one assertion table in a working  *)
(* tree; vr_call holds the assertion and the listing order, vr_out the     *)
(* result row                                                              *)
(***************************************************************************)
MaxLinesPaths ==
    {JMissing, JStr(" "), JStr("src/app.ts"), JStr(" src/app.ts "), JStr("docs/gone.md"), JStr("src")}

MaxLinesValues ==
    { JMissing, JNull, JNum(0), JNum(-1), JNum(1), JNum(2),
      JStr("2"), JStr("two"), JFloat("2.7", 2), JFloat("0.5", 0), JBool(TRUE) }

PatternValues == {JMissing, JStr(" "), JStr("python3"), JStr(" export "), JStr("import"), JStr("(")}

IncludeValues ==
    { NoInclude,
      IncludeList(<<>>),
      IncludeList(<<"src/*.ts">>),
      IncludeList(<<" ", " docs/*.md ", "src/*.ts">>),
      TsInclude }

AssertionUniverse ==
    {Assertion(JStr("max_lines"), p, m, JMissing, NoInclude) : p \in MaxLinesPaths, m \in MaxLinesValues}
    \cup {Assertion(JStr(k), JMissing, JMissing, p, inc) :
            k \in {"forbid_pattern", " Require_Pattern "}, p \in PatternValues, inc \in IncludeValues}
    \cup {Assertion(JStr("file_exists"), p, JMissing, JMissing, NoInclude) : p \in MaxLinesPaths}
    \cup {Assertion(k, JStr("src/app.ts"), JNum(1), JStr("python3"), NoInclude) :
            k \in {JMissing, JNull, JNum(3), JStr("line_count")}}

EvalAssertion ==
    /\ dr_out = None
    /\ vr_run = None
    /\ vr_out = None
    /\ \E assertion \in AssertionUniverse, order \in WalkOrders(worktree) :
          /\ vr_call' = [assertion |-> assertion, order |-> order]
          /\ vr_out' = _run_assertion(worktree, order, assertion)
    /\ UNCHANGED <<worktree, vr_run, persisted>>
    /\ UNCHANGED <<linVars, fsVars, fuVars, drVars, cliVars, exVars>>

NextAssert == TreeChange \/ EvalAssertion \/ VerifyDiscard

SpecAssert == InitVerify /\ [][NextAssert]_vars

\* _run_assertion returned a row
AssertEvaluated == vr_out # None /\ ~vr_out.raised

\* the pattern and the include list as the assertion gives them, trimmed
GivenPattern == Strip(StrOrEmpty(vr_call.assertion.pattern))

GivenInclude ==
    IF vr_call.assertion.include.islist
    THEN SelectSeq(vr_call.assertion.include.items, LAMBDA x : Strip(x) # "")
    ELSE <<>>

\* the candidate files: regular files outside the excluded directories that
\* match a glob of the include list, or of the default list when none is given
CandidateFiles ==
    {f \in worktree :
        /\ \A skip \in _SKIP_DIRS : f.path # skip /\ ~StartsWith(f.path, skip \o "/")
        /\ IF GivenInclude = <<>>
           THEN \E k \in 1..Len(DefaultInclude) : FnMatch(f.path, DefaultInclude[k])
           ELSE \E k \in 1..Len(GivenInclude) : FnMatch(f.path, Strip(GivenInclude[k]))}

MatchLines(f) == {n \in 1..Len(f.lines) : Contains(GivenPattern, f.lines[n])}

\* the same assertion with the other of the two pattern kinds
Counterpart ==
    _run_assertion(worktree, vr_call.order,
        [vr_call.assertion EXCEPT !.kind =
            IF vr_out.kind = "forbid_pattern" THEN JStr("require_pattern")
            ELSE JStr("forbid_pattern")])

(***************************************************************************)
(* C12: for a non-empty valid pattern (as the code reads it, trimmed) and  *)
(* a given include list over any project tree, a forbid_pattern assertion  *)
(* passes iff no candidate file contains a match and a require_pattern     *)
(* assertion passes iff at least one candidate file contains a match, so   *)
(* exactly one of the two passes; a failing forbid_pattern reports at      *)
(* least one hit with the file path and the 1-based line number of the     *)
(* match.                                                                  *)
(***************************************************************************)
C12_PatternDuality ==
    (AssertEvaluated /\ vr_out.kind \in {"forbid_pattern", "require_pattern"}
       /\ GivenPattern # "" /\ GivenPattern \notin InvalidRegexes) =>
        LET matched == \E f \in CandidateFiles : MatchLines(f) # {}
        IN /\ vr_out.kind = "forbid_pattern" => (vr_out.ok <=> ~matched)
           /\ vr_out.kind = "require_pattern" => (vr_out.ok <=> matched)
           /\ Counterpart.kind # vr_out.kind
           /\ Counterpart.ok # vr_out.ok
           /\ (vr_out.kind = "forbid_pattern" /\ ~vr_out.ok) =>
                 /\ Len(vr_out.hits) >= 1
                 /\ \A i \in 1..Len(vr_out.hits) :
                       \E f \in CandidateFiles :
                          /\ f.path = vr_out.hits[i].path
                          /\ vr_out.hits[i].line \in MatchLines(f)
                          /\ \A n \in MatchLines(f) : vr_out.hits[i].line <= n

\* a forbid_pattern over two candidate files that both match fails with the
\* hit on the second line of the file listed first
C12_Witness ==
    /\ AssertEvaluated
    /\ vr_out.kind = "forbid_pattern"
    /\ Cardinality({f \in CandidateFiles : MatchLines(f) # {}}) = 2
    /\ ~vr_out.ok
    /\ vr_out.hits = <<[path |-> "src/app.ts", line |-> 2]>>
    /\ Counterpart.ok

(***************************************************************************)
(* C13: a max_lines assertion passes iff its path is given and exists, max *)
(* is a positive integer, and the file's line count is at most max: a file *)
(* with exactly max lines passes, a file with max + 1 lines fails, and a   *)
(* missing path or a non-positive or non-integer max is a failing          *)
(* assertion.                                                              *)
(***************************************************************************)
C13_MaxLines ==
    (AssertEvaluated /\ vr_out.kind = "max_lines") =>
        LET path == Strip(StrOrEmpty(vr_call.assertion.path))
            max == vr_call.assertion.max
        IN vr_out.ok <=>
              /\ path # ""
              /\ IsFile(worktree, path)
              /\ max.j = "num"
              /\ max.n > 0
              /\ Len(FileAt(worktree, path).lines) <= max.n

(***************************************************************************)
(* C14: for every assertion record (any or missing kind, missing or        *)
(* invalid fields, an invalid regex, a path that is missing or names a     *)
(* directory) run_verify returns a report without raising, containing      *)
(* exactly one result for that assertion and a verify_assertion_failed     *)
(* finding whenever the result is not ok.                                  *)
(***************************************************************************)
C14_AssertionsNeverRaise ==
    (vr_run # None /\ vr_out # None) =>
        /\ ~vr_out.raised
        /\ Len(vr_out.assertions) = Len(ConfiguredAssertions)
        /\ CountKind(vr_out.findings, "verify_assertion_failed")
              = Cardinality({i \in 1..Len(vr_out.assertions) : ~vr_out.assertions[i].ok})

\* the verify-state files with the one of `task_id` replaced by `content`
WithVerifyFile(task_id, content) == [vfiles EXCEPT ![verify_state_path(task_id)] = content]

(***************************************************************************)
(* C15: after write_verify_state(task, r), load_verify_state(task) returns *)
(* a report with the same score (and content) as r until the next write    *)
(* for that task; before any write, or when the file content is not        *)
(* decodable JSON, load_verify_state returns None and drift evaluation     *)
(* treats the report as absent.                                            *)
(***************************************************************************)
C15_WriteThenLoad ==
    \A t \in GateTaskIds :
        /\ load_verify_state(vfiles, t) = persisted[t]
        /\ load_verify_state(WithVerifyFile(t, VCorrupt), t) = None
        /\ \A spec \in GateVerifySpecs :
              compute_redrift(t, spec, disk, graph, WithVerifyFile(t, VCorrupt))
                 = compute_redrift(t, spec, disk, graph, WithVerifyFile(t, VAbsent))

(***************************************************************************)
(* specs.py: the contract block and RedriftSpec.from_raw                   *)
(***************************************************************************)
\* required_artifacts of a raw table: absent, or a list of strings
NoList == [given |-> FALSE, items |-> <<>>]
ListOf(items) == [given |-> TRUE, items |-> items]

\* a decoded contract table, by the members every table is given here; the
\* members artifact_root, create_phase_followups, verify_commands and
\* verify_assertions are absent unless WithMembers adds them
RawTable(schema, required_artifacts, verify_required, max_followup_depth) ==
    [schema |-> schema,
     required_artifacts |-> required_artifacts,
     verify_required |-> verify_required,
     max_followup_depth |-> max_followup_depth]

WithMembers(raw, members) == members @@ raw

\* [str(x).strip().lstrip("/") for x in ... if str(x).strip()]
RECURSIVE CleanArtifacts(_)
CleanArtifacts(items) ==
    IF items = <<>> THEN <<>>
    ELSE (IF Strip(Head(items)) # "" THEN <<LStripChars(Strip(Head(items)), {"/"})>> ELSE <<>>)
         \o CleanArtifacts(Tail(items))

\* raw.get(key) on a table that may lack the member
Member(raw, key) == IF key \in DOMAIN raw THEN raw[key] ELSE JMissing

\* raw.get(key) or [] for the members that hold lists
MemberItems(raw, key) == IF key \in DOMAIN raw THEN raw[key].items ELSE <<>>

\* RedriftSpec.from_raw: int(schema) is not guarded, int(max_followup_depth) is
from_raw(raw) ==
    LET listed == raw.required_artifacts.items
        root == Member(raw, "artifact_root")
        followups == Member(raw, "create_phase_followups")
        required == Member(raw, "verify_required")
        max_depth == Member(raw, "max_followup_depth")
        depth == IF max_depth = JMissing THEN 1
                 ELSE IF IntParses(max_depth) THEN IntOrZero(max_depth)
                 ELSE 1
    IN IF raw.schema # JMissing /\ ~IntParses(raw.schema) THEN Raised
       ELSE [raised |-> FALSE,
             schema |-> IF raw.schema = JMissing THEN 1 ELSE IntOrZero(raw.schema),
             artifact_root |-> IF Truthy(root) /\ Strip(StrOrEmpty(root)) # ""
                               THEN Strip(StrOrEmpty(root)) ELSE DefaultArtifactRoot,
             required_artifacts |-> CleanArtifacts(IF listed # <<>> THEN listed ELSE DefaultArtifacts),
             create_phase_followups |-> IF followups = JMissing THEN TRUE
                                        ELSE Truthy(followups),
             verify_required |-> IF required = JMissing THEN TRUE ELSE Truthy(required),
             verify_commands |-> StripAll(MemberItems(raw, "verify_commands")),
             verify_assertions |-> SelectSeq(MemberItems(raw, "verify_assertions"),
                                             LAMBDA x : x.isdict),
             max_followup_depth |-> IF depth < 0 THEN 0 ELSE depth]

(***************************************************************************)
(* SpecFromRaw: RedriftSpec.from_raw applied to decoded contract tables;   *)
(* dr_call holds the table, dr_out the specification (or that it raised)   *)
(***************************************************************************)
RawSchemas == {JMissing, JNum(1), JNum(2), JStr("2"), JStr("one")}

RawArtifactLists ==
    { NoList,
      ListOf(<<>>),
      ListOf(<<"analyze/inventory.md", "foo/custom.md">>),
      ListOf(<<" /design/adr.md ", " ", "", "//build/plan.md">>),
      ListOf(<<"/">>),
      ListOf(<<"respec/v2-spec.md", "/ notes.md">>) }

RawDepths == {JMissing, JNum(0), JNum(3), JNum(-2), JStr("-1"), JStr("deep"), JFloat("1.5", 1)}

RawTables ==
    {RawTable(s, req, vr, d) :
        s \in RawSchemas, req \in RawArtifactLists, vr \in {JMissing, JBool(FALSE)}, d \in RawDepths}

FromRaw ==
    /\ dr_out = None
    /\ \E raw \in RawTables :
          /\ dr_call' = [raw |-> raw]
          /\ dr_out' = from_raw(raw)
    /\ UNCHANGED <<linVars, fsVars, fuVars, vrVars, cliVars, exVars>>

NextFromRaw == FromRaw \/ DriftReturn

SpecFromRaw == InitDrift /\ [][NextFromRaw]_vars

\* from_raw returned a specification
SpecYielded == dr_out # None /\ ~dr_out.raised

(***************************************************************************)
(* C17: for every raw contract table, RedriftSpec.from_raw yields a        *)
(* specification whose required_artifacts contains no blank entry and no   *)
(* entry beginning with '/' (or with surrounding whitespace), and whose    *)
(* max_followup_depth is an integer >= 0.                                  *)
(***************************************************************************)
C17_NormalizedSpec ==
    SpecYielded =>
        /\ \A i \in 1..Len(dr_out.required_artifacts) :
              LET rel == dr_out.required_artifacts[i]
              IN /\ rel # ""
                 /\ Head(rel) # "/"
                 /\ Strip(rel) = rel
        /\ dr_out.max_followup_depth \in Nat

(***************************************************************************)
(* cli.py: the check entry point cmd_wg_check                              *)
(***************************************************************************)
ExitOk == 0
ExitFindings == 3

\* a task description, by what extract_redrift_spec and parse_redrift_spec make
\* of it: no redrift fence, a fence whose body tomllib cannot decode, or a
\* fence that decodes to a table
NoBlock == [block |-> "none", raw |-> RawTable(JMissing, NoList, JMissing, JMissing)]
UndecodableBlock == [block |-> "undecodable", raw |-> RawTable(JMissing, NoList, JMissing, JMissing)]
TableBlock(raw) == [block |-> "table", raw |-> raw]

RecFixBlock == "Fix the redrift TOML block so it parses"

\* the report built when there is no block, and when the block cannot be read
NoBlockReport ==
    [raised |-> FALSE, score |-> "green", findings |-> <<>>, recommendations |-> <<>>]

InvalidSpecReport ==
    [raised |-> FALSE, score |-> "yellow",
     findings |-> <<Finding("invalid_redrift_spec", "warn", <<>>)>>,
     recommendations |-> <<RecFixBlock>>]

\* cmd_wg_check up to its report: what it returns and whether the report goes
\* on to _write_state and the task log (follow-up creation is not requested)
cmd_wg_check(task_id, description, files, g, vf) ==
    LET spec == from_raw(description.raw)
        report == compute_redrift(task_id, spec, files, g, vf)
    IN IF description.block = "none"
       THEN [raised |-> FALSE, exit_code |-> ExitOk, report |-> NoBlockReport, stored |-> FALSE]
       ELSE IF description.block = "undecodable" \/ spec.raised
       THEN [raised |-> FALSE, exit_code |-> ExitFindings, report |-> InvalidSpecReport,
             stored |-> TRUE]
       ELSE IF report.raised
       THEN [raised |-> TRUE, exit_code |-> ExitOk, report |-> NoBlockReport, stored |-> FALSE]
       ELSE [raised |-> FALSE,
             exit_code |-> IF report.findings # <<>> THEN ExitFindings ELSE ExitOk,
             report |-> report,
             stored |-> TRUE]

\* _maybe_write_log: the message, by the parts it is formatted from
LogMessage(report) ==
    IF report.findings = <<>>
    THEN [ok |-> TRUE, score |-> "", kinds |-> {}, next |-> ""]
    ELSE [ok |-> FALSE, score |-> report.score, kinds |-> Kinds(report.findings),
          next |-> IF report.recommendations # <<>> THEN Strip(report.recommendations[1]) ELSE ""]

CheckTables ==
    { RawTable(JMissing, NoList, JMissing, JMissing),
      RawTable(JNum(1), ListOf(<<"/">>), JBool(FALSE), JNum(-2)),
      RawTable(JNum(2), ListOf(<<"foo/custom.md">>), JBool(FALSE), JMissing),
      RawTable(JStr("one"), NoList, JMissing, JMissing) }

CheckDescriptions == {NoBlock, UndecodableBlock} \cup {TableBlock(raw) : raw \in CheckTables}

\* one invocation of the check entry point; writing last.json is best effort
\* (_write_state swallows a failing write)
CmdWgCheck ==
    /\ dr_out = None
    /\ \E description \in CheckDescriptions, write_log \in BOOLEAN, written \in BOOLEAN :
          LET out == cmd_wg_check("t1", description, disk, graph, vfiles)
              logs == out.stored /\ write_log
          IN /\ logs => Len(wg_log) < MaxWgLog
             /\ dr_call' = [task_id |-> "t1", description |-> description, write_log |-> write_log]
             /\ dr_out' = out
             /\ last_json' = IF out.stored /\ written THEN out.report ELSE last_json
             /\ wr_out' = IF out.stored THEN WriteOutcome("last.json", ~written, FALSE)
                          ELSE wr_out
             /\ wg_log' = IF logs THEN Append(wg_log, LogMessage(out.report)) ELSE wg_log
    /\ UNCHANGED <<linVars, fsVars, fuVars, vrVars, exVars>>

NextCheck == CmdWgCheck \/ DriftReturn

SpecCheck == InitDrift /\ [][NextCheck]_vars

(***************************************************************************)
(* C16: when a redrift contract block is present in the task description   *)
(* but cannot be decoded, the failure is surfaced to the caller of the     *)
(* check entry point as a hard error; it is not downgraded into a report   *)
(* with a warn-level finding and a yellow score.                           *)
(***************************************************************************)
C16_DecodeFailureIsHardError ==
    (dr_out # None /\ dr_call.description.block = "undecodable") =>
        /\ dr_out.raised
        /\ last_json = None \/ last_json.score # "yellow"

(***************************************************************************)
(* cli.py: _phase_artifacts, the grouping execute uses for phase tasks     *)
(***************************************************************************)
\* faulty variant: an unknown first segment is filed under analyze
GroupPhaseUnknownFirst(rel_clean) ==
    LET phase == Lower(Strip(FirstSegment(rel_clean)))
    IN IF phase \in Phases THEN phase ELSE "analyze"

\* the phase _phase_artifacts files a cleaned path under
GroupPhase(rel_clean) ==
    LET phase == Lower(Strip(FirstSegment(rel_clean)))
    IN IF phase \in Phases THEN phase ELSE "build"

RECURSIVE PhaseArtifactsLoop(_, _)
PhaseArtifactsLoop(rels, out) ==
    IF rels = <<>> THEN out
    ELSE LET rel_clean == LStripChars(Strip(Head(rels)), {"/"})
         IN IF rel_clean = "" THEN PhaseArtifactsLoop(Tail(rels), out)
            ELSE PhaseArtifactsLoop(Tail(rels),
                     [out EXCEPT ![GroupPhase(rel_clean)] = Append(@, rel_clean)])

_phase_artifacts(spec) == PhaseArtifactsLoop(spec.required_artifacts, NoPhaseMissing)

(***************************************************************************)
(* SpecPhase: path strings are classified by _phase_for_artifact, and      *)
(* lists of them grouped by _phase_artifacts and by compute_redrift        *)
(***************************************************************************)
PhasePaths ==
    { "", "/", "analyze", "analyze/inventory.md", "ANALYZE/Notes.md", "Respec/v2-spec.md",
      "design/adr.md", "build/migration-plan.md", "foo/custom.md", "analyzer/x.md",
      "analyze /x.md", "/design/adr.md", "docs/analyze/x.md" }

PhasePathLists ==
    {<<>>} \cup {<<p>> : p \in PhasePaths} \cup {<<p, q>> : p \in PhasePaths, q \in PhasePaths}

\* nothing exists on disk, so compute_redrift's phase map holds every artifact
ClassifyArtifacts ==
    /\ dr_out = None
    /\ disk = {}
    /\ \E paths \in PhasePathLists :
          LET spec == RedriftSpec(1, paths, FALSE)
          IN /\ dr_call' = [task_id |-> "t1", spec |-> spec]
             /\ dr_out' = [raised |-> FALSE,
                           phases |-> [i \in 1..Len(paths) |-> _phase_for_artifact(paths[i])],
                           grouped |-> _phase_artifacts(spec),
                           report |-> compute_redrift("t1", spec, disk, graph, vfiles)]
    /\ UNCHANGED <<linVars, fsVars, fuVars, vrVars, cliVars, exVars>>

NextPhase == ClassifyArtifacts \/ DriftReturn

SpecPhase == InitDrift /\ [][NextPhase]_vars

\* the phase of every path of PhasePaths, written out by hand; the first
\* segment is taken with surrounding blanks removed, as the code takes it
PhaseByHand(path) ==
    CASE path \in {"analyze", "analyze/inventory.md", "ANALYZE/Notes.md", "analyze /x.md"} -> "analyze"
      [] path = "Respec/v2-spec.md" -> "respec"
      [] path = "design/adr.md" -> "design"
      [] path \in {"", "/", "build/migration-plan.md", "foo/custom.md", "analyzer/x.md",
                   "/design/adr.md", "docs/analyze/x.md"} -> "build"

Classified == dr_out # None /\ ~dr_out.raised

\* the required artifacts as normalized paths: blanks and leading slashes removed
NormalizedRequired ==
    SelectSeq([i \in 1..Len(dr_call.spec.required_artifacts) |->
                  LStripChars(Strip(dr_call.spec.required_artifacts[i]), {"/"})],
              LAMBDA rel : rel # "")

(***************************************************************************)
(* C18: phase classification is a total function: for every path string    *)
(* _phase_for_artifact returns exactly one of analyze, respec, design,     *)
(* build, namely the lower-cased first path segment (blanks around it      *)
(* removed, as the code does) when it is one of the four phase names and   *)
(* build otherwise; cli._phase_artifacts places every required artifact    *)
(* under that same phase (foo/custom.md under build), as compute_redrift's *)
(* phase map does.                                                         *)
(***************************************************************************)
C18_PhaseTotal ==
    Classified =>
        LET paths == dr_call.spec.required_artifacts
            norm == NormalizedRequired
        IN /\ \A i \in 1..Len(paths) :
                 /\ dr_out.phases[i] \in Phases
                 /\ dr_out.phases[i] = PhaseByHand(paths[i])
           /\ DOMAIN dr_out.grouped = Phases
           /\ \A ph \in Phases :
                 dr_out.grouped[ph] = SelectSeq(norm, LAMBDA rel : PhaseByHand(rel) = ph)
           /\ \A ph \in Phases :
                 dr_out.grouped[ph] = SelectSeq(norm, LAMBDA rel : _phase_for_artifact(rel) = ph)
           /\ ~dr_out.report.raised
           /\ dr_out.report.telemetry.phase_missing = dr_out.grouped

\* an upper-case phase segment and an unknown one, grouped under analyze and build
C18_Witness ==
    /\ Classified
    /\ dr_call.spec.required_artifacts = <<"ANALYZE/Notes.md", "foo/custom.md">>
    /\ dr_out.phases = <<"analyze", "build">>
    /\ dr_out.grouped["build"] = <<"foo/custom.md">>
    /\ dr_out.grouped["analyze"] = <<"ANALYZE/Notes.md">>

(***************************************************************************)
(* SpecStatus: _normalize_status applied to raw status values; fu_call     *)
(* holds the raw value, fu_out the normalized status                       *)
(***************************************************************************)
UpperChar(c) ==
    IF \E i \in 1..26 : Char(LowerAlpha, i) = c
    THEN Char(UpperAlpha, CHOOSE i \in 1..26 : Char(LowerAlpha, i) = c)
    ELSE c

RECURSIVE Upper(_)
Upper(s) == IF s = "" THEN "" ELSE UpperChar(Head(s)) \o Upper(Tail(s))

StatusWords ==
    { "done", "completed", "complete", "abandoned", "failed", "error", "blocked",
      "in-progress", "in_progress", "pending-review", "pending_review",
      "open", "todo", "pending", "not_started", "not-started",
      "wip", "cancelled", "closed", "not started", "in progress", "review" }

\* every word as it is, in upper case, capitalised, and padded with blanks
RawStatuses ==
    {JStr(w) : w \in StatusWords}
    \cup {JStr(Upper(w)) : w \in StatusWords}
    \cup {JStr(UpperChar(Head(w)) \o Tail(w)) : w \in StatusWords}
    \cup {JStr(" " \o w \o " ") : w \in StatusWords}
    \cup {JStr("\t" \o w \o "\n") : w \in StatusWords}
    \cup {JMissing, JNull, JStr(""), JStr(" "), JNum(0), JNum(7), JBool(TRUE), JBool(FALSE)}

NormalizeStatus ==
    /\ fu_out = None
    /\ \E raw \in RawStatuses :
          /\ fu_call' = [raw |-> raw]
          /\ fu_out' = [raised |-> FALSE, status |-> _normalize_status(raw)]
    /\ UNCHANGED <<linVars, fsVars, drVars, vrVars, cliVars, exVars>>

NextStatus == NormalizeStatus \/ FollowupsReturn

SpecStatus == InitFollowups /\ [][NextStatus]_vars

StatusVocabulary ==
    {"done", "abandoned", "failed", "blocked", "in_progress", "pending_review", "open"}

(***************************************************************************)
(* C19: for every raw status value, _normalize_status returns a member of  *)
(* the fixed vocabulary {done, abandoned, failed, blocked, in_progress,    *)
(* pending_review, open}, using open as the fallback for missing or        *)
(* unrecognized values.                                                    *)
(***************************************************************************)
C19_StatusVocabulary ==
    fu_out # None =>
        /\ fu_out.status \in StatusVocabulary
        /\ ~Truthy(fu_call.raw) => fu_out.status = "open"

(***************************************************************************)
(* SpecPersist: reports are computed and written to their state files on a *)
(* file system that may refuse a write                                     *)
(***************************************************************************)
PersistVerifyState == \E writable \in BOOLEAN : WriteVerifyStateOn(writable)

PersistRunVerify == RunVerifyOf({"t1"}, GateVerifySpecs)

NextPersist ==
    \/ PersistRunVerify
    \/ PersistVerifyState
    \/ VerifyDiscard
    \/ CmdWgCheck
    \/ DriftReturn

SpecPersist == InitVerify /\ [][NextPersist]_vars

(***************************************************************************)
(* C21: a failure to write the persisted verification report               *)
(* (write_verify_state) or the last-report state file (_write_state) is    *)
(* swallowed: no error propagates to the caller and the invocation         *)
(* completes as if the write had succeeded.                                *)
(***************************************************************************)
C21_WriteFailureSwallowed ==
    (wr_out # None /\ wr_out.failed) => ~wr_out.raised

(***************************************************************************)
(* verify.py: the captured output of a command                             *)
(***************************************************************************)
TruncateLimit == 2000

TruncatedSuffix == "\n...[truncated]..."

_truncate(text, limit) ==
    IF Len(text) <= limit THEN text
    ELSE SubSeq(text, 1, limit) \o TruncatedSuffix

\* the row of _run_command with the output the process wrote
CapturedRow(tree, command, stdout, stderr) ==
    LET row == _run_command(tree, command)
    IN [command |-> row.command, exit_code |-> row.exit_code, ok |-> row.ok,
        stdout |-> _truncate(stdout, TruncateLimit),
        stderr |-> _truncate(stderr, TruncateLimit)]

(***************************************************************************)
(* SpecCapture: commands that write output of various lengths              *)
(***************************************************************************)
\* a text of n characters
RECURSIVE TextOfLen(_)
TextOfLen(n) ==
    IF n = 0 THEN ""
    ELSE IF n % 2 = 1 THEN "x" \o TextOfLen(n - 1)
    ELSE LET half == TextOfLen(n \div 2) IN half \o half

OutputLengths == {0, 1, 18, 1999, 2000, 2001, 2018, 4000}

CaptureCommand ==
    /\ vr_out = None
    /\ \E command \in {"true", "false"}, out \in OutputLengths, err \in OutputLengths :
          /\ vr_call' = [command |-> command, stdout |-> TextOfLen(out),
                         stderr |-> TextOfLen(err)]
          /\ vr_out' = CapturedRow(worktree, command, TextOfLen(out), TextOfLen(err))
    /\ UNCHANGED <<worktree, vr_run, persisted>>
    /\ UNCHANGED <<linVars, fsVars, fuVars, drVars, cliVars, exVars>>

NextCapture == CaptureCommand \/ VerifyDiscard

SpecCapture == InitVerify /\ [][NextCapture]_vars

(***************************************************************************)
(* C22: in every command result of run_verify the stored stdout and        *)
(* stderr are each at most 2000 characters long, for command output of any *)
(* length.                                                                 *)
(***************************************************************************)
C22_OutputAtMostLimit ==
    vr_out # None =>
        /\ Len(vr_out.stdout) <= 2000
        /\ Len(vr_out.stderr) <= 2000

(***************************************************************************)
(* SpecWalk: pattern assertions over trees that hold dependency and cache  *)
(* directories at the top and below a package directory                    *)
(***************************************************************************)
TreeNested ==
    { TreeFile("src/app.ts", <<"export const x = 1;">>),
      TreeFile("packages/web/node_modules/dep/index.js", <<"#!/usr/bin/env python3">>),
      TreeFile("packages/web/__pycache__/gen.py", <<"import os">>) }

WalkTrees == Trees \cup {TreeNested}

WalkAssertions ==
    {Assertion(JStr(k), JMissing, JMissing, JStr(p), inc) :
        k \in {"forbid_pattern", "require_pattern"},
        p \in {"python3", "import"},
        inc \in {NoInclude, IncludeList(<<"**/*.js">>), IncludeList(<<"*">>)}}

WalkTreeChange ==
    /\ vr_out = None
    /\ \E t \in WalkTrees \ {worktree} : worktree' = t
    /\ UNCHANGED <<vr_call, vr_run, vr_out, persisted>>
    /\ UNCHANGED <<linVars, fsVars, fuVars, drVars, cliVars, exVars>>

WalkAssertion ==
    /\ vr_out = None
    /\ \E assertion \in WalkAssertions, order \in WalkOrders(worktree) :
          /\ vr_call' = [assertion |-> assertion, order |-> order]
          /\ vr_out' = _run_assertion(worktree, order, assertion)
    /\ UNCHANGED <<worktree, vr_run, persisted>>
    /\ UNCHANGED <<linVars, fsVars, fuVars, drVars, cliVars, exVars>>

NextWalk == WalkTreeChange \/ WalkAssertion \/ VerifyDiscard

SpecWalk == InitVerify /\ [][NextWalk]_vars

\* the path lies inside an excluded directory, at the top of the project or
\* below other directories
InsideExcluded(rel) ==
    \E skip \in _SKIP_DIRS :
        StartsWith(rel, skip \o "/") \/ Contains("/" \o skip \o "/", rel)

\* the files the evaluated pattern assertion searched
WalkedFiles ==
    LET given == IF vr_call.assertion.include.islist
                 THEN StripAll(vr_call.assertion.include.items) ELSE <<>>
    IN _walk_files(vr_call.order, IF given # <<>> THEN given ELSE DefaultInclude)

(***************************************************************************)
(* C23: no file located inside an excluded directory (.git, the            *)
(* sibling-tool state directories under .workgraph, node_modules, .next,   *)
(* .venv, venv, __pycache__), at any depth of the project tree, is ever a  *)
(* candidate file for a forbid_pattern or require_pattern assertion (nor,  *)
(* therefore, reported as a hit).                                          *)
(***************************************************************************)
C23_ExcludedNeverCandidate ==
    vr_out # None =>
        /\ \A i \in 1..Len(WalkedFiles) : ~InsideExcluded(WalkedFiles[i])
        /\ \A i \in 1..Len(vr_out.hits) : ~InsideExcluded(vr_out.hits[i].path)

(***************************************************************************)
(* The recommendation list of compute_redrift                              *)
(***************************************************************************)
\* the finding kind that drives each recommendation, in the order in which
\* the code appends them; the verification_missing command names the task
RecommendationTable(task_id) ==
    << <<"missing_redrift_artifacts", RecMissing>>,
       <<"phase_incomplete_analyze", RecPhase["analyze"]>>,
       <<"phase_incomplete_respec", RecPhase["respec"]>>,
       <<"phase_incomplete_design", RecPhase["design"]>>,
       <<"phase_incomplete_build", RecPhase["build"]>>,
       <<"verification_missing", RecVerifyMissing(task_id)>>,
       <<"verification_failed", RecVerifyFailed>>,
       <<"unresolved_redrift_followups", RecFollowups>>,
       <<"unsupported_schema", RecSchema>> >>

RECURSIVE ActionsOf(_, _)
ActionsOf(table, kinds) ==
    IF table = <<>> THEN <<>>
    ELSE (IF Head(table)[1] \in kinds THEN <<Head(table)[2]>> ELSE <<>>)
         \o ActionsOf(Tail(table), kinds)

ExpectedRecommendations(task_id, kinds) == ActionsOf(RecommendationTable(task_id), kinds)

NoRepeatedAction(recs) ==
    \A i, j \in 1..Len(recs) : i # j => recs[i] # recs[j]

\* what compute_redrift returns for any task and specification on the
\* project as it stands
ReportsOnThisProject ==
    {compute_redrift(task_id, spec, disk, graph, vfiles) :
        task_id \in DriftTaskIds, spec \in DriftSpecs}

(***************************************************************************)
(* C20 as stated: the recommendation list of compute_redrift has no two    *)
(* entries with the same action text, is determined by the set of finding  *)
(* kinds present (any report with the same kinds carries the same list),   *)
(* lists its entries in the fixed order missing artifacts, analyze,        *)
(* respec, design, build, verification_missing, verification_failed,       *)
(* unresolved follow-ups, unsupported schema, and is non-empty iff the     *)
(* findings list is non-empty.                                             *)
(***************************************************************************)
C20_RecommendationsByKinds ==
    Returned =>
        /\ NoRepeatedAction(dr_out.recommendations)
        /\ \A other \in ReportsOnThisProject :
              (~other.raised /\ Kinds(other.findings) = Kinds(dr_out.findings))
                  => other.recommendations = dr_out.recommendations
        /\ dr_out.recommendations # <<>> <=> dr_out.findings # <<>>

(***************************************************************************)
(* C20 amended: the recommendation list has no two entries with the same   *)
(* action text, is determined by the set of finding kinds present together *)
(* with the task id (which the verification_missing command names), lists  *)
(* its entries in the fixed order above, and is non-empty iff the findings *)
(* list is non-empty.                                                      *)
(***************************************************************************)
C20_RecommendationsByKindsAndTask ==
    Returned =>
        /\ NoRepeatedAction(dr_out.recommendations)
        /\ dr_out.recommendations =
              ExpectedRecommendations(dr_call.task_id, Kinds(dr_out.findings))
        /\ dr_out.recommendations # <<>> <=> dr_out.findings # <<>>

\* a report whose findings begin with unsupported_schema and whose
\* recommendations end with it, the verification command in between
C20_Witness ==
    /\ Returned
    /\ Len(dr_out.findings) >= 4
    /\ dr_out.findings[1].kind = "unsupported_schema"
    /\ "verification_missing" \in Kinds(dr_out.findings)
    /\ "unresolved_redrift_followups" \in Kinds(dr_out.findings)
    /\ dr_out.recommendations[1] = RecMissing
    /\ dr_out.recommendations[Len(dr_out.recommendations)] = RecSchema
    /\ \E i \in 1..Len(dr_out.recommendations) :
          dr_out.recommendations[i] = RecVerifyMissing(dr_call.task_id)

(***************************************************************************)
(* cli.py: the suite check and the execute command                         *)
(***************************************************************************)
ExitUsage == 2

OPTIONAL_SUITE_FENCES ==
    <<"specdrift", "datadrift", "depsdrift", "uxdrift", "therapydrift", "yagnidrift">>

EXECUTE_PLUGIN_ORDER ==
    <<"speedrift", "specdrift", "datadrift", "depsdrift", "uxdrift", "therapydrift",
      "yagnidrift", "redrift">>

OptionalFences == {OPTIONAL_SUITE_FENCES[i] : i \in 1..Len(OPTIONAL_SUITE_FENCES)}

\* a fenced block of a description, other than the redrift block
Fence(info, body) == [info |-> info, body |-> body]

\* a description with its generic fences in the order they appear
WithFences(description, fences) ==
    [block |-> description.block, raw |-> description.raw, fences |-> fences]

\* _extract_suite_fence_blocks: the optional fences by lower-cased info
\* string, the first of each kind, with the body stripped
_extract_suite_fence_blocks(fences) ==
    LET infos == {Lower(Strip(fences[i].info)) : i \in 1..Len(fences)} \cap OptionalFences
        first(info) == CHOOSE i \in 1..Len(fences) :
                          /\ Lower(Strip(fences[i].info)) = info
                          /\ \A j \in 1..(i - 1) : Lower(Strip(fences[j].info)) # info
    IN [info \in infos |-> Strip(fences[first(info)].body)]

PluginRow(plugin, exit_code, invoked) ==
    [plugin |-> plugin, exit_code |-> exit_code, invoked |-> invoked]

\* faulty variant of the loop below: a failing plugin does not end the check
RECURSIVE SuiteLoopRunsAll(_, _, _, _, _, _)
SuiteLoopRunsAll(plugins, enabled, wrappers, answer, overall, run) ==
    IF plugins = <<>> THEN [raised |-> FALSE, rc |-> overall, plugins |-> run]
    ELSE LET plugin == Head(plugins)
             rc == answer[plugin]
         IN IF plugin = "speedrift" \/ plugin \notin enabled
            THEN SuiteLoopRunsAll(Tail(plugins), enabled, wrappers, answer, overall, run)
            ELSE IF plugin \notin wrappers
            THEN SuiteLoopRunsAll(Tail(plugins), enabled, wrappers, answer, overall,
                                  Append(run, PluginRow(plugin, ExitOk, FALSE)))
            ELSE SuiteLoopRunsAll(Tail(plugins), enabled, wrappers, answer,
                                  IF rc \notin {ExitOk, ExitFindings} THEN rc
                                  ELSE IF rc = ExitFindings /\ overall = ExitOk
                                  THEN ExitFindings ELSE overall,
                                  Append(run, PluginRow(plugin, rc, TRUE)))

\* the loop of _run_suite_check over EXECUTE_PLUGIN_ORDER; answer gives the
\* exit code of each wrapper for this task
RECURSIVE SuiteLoop(_, _, _, _, _, _)
SuiteLoop(plugins, enabled, wrappers, answer, overall, run) ==
    IF plugins = <<>> THEN [raised |-> FALSE, rc |-> overall, plugins |-> run]
    ELSE LET plugin == Head(plugins)
             rc == answer[plugin]
         IN IF plugin = "speedrift" \/ plugin \notin enabled
            THEN SuiteLoop(Tail(plugins), enabled, wrappers, answer, overall, run)
            ELSE IF plugin \notin wrappers
            THEN SuiteLoop(Tail(plugins), enabled, wrappers, answer, overall,
                           Append(run, PluginRow(plugin, ExitOk, FALSE)))
            ELSE IF rc \notin {ExitOk, ExitFindings}
            THEN [raised |-> FALSE, rc |-> rc,
                  plugins |-> Append(run, PluginRow(plugin, rc, TRUE))]
            ELSE SuiteLoop(Tail(plugins), enabled, wrappers, answer,
                           IF rc = ExitFindings /\ overall = ExitOk
                           THEN ExitFindings ELSE overall,
                           Append(run, PluginRow(plugin, rc, TRUE)))

\* _run_suite_check: speedrift first, then the enabled plugins in order
_run_suite_check(description, wrappers, answer) ==
    LET enabled == DOMAIN _extract_suite_fence_blocks(description.fences)
                   \cup (IF description.block # "none" THEN {"redrift"} ELSE {})
        speed_rc == answer["speedrift"]
        first == <<PluginRow("speedrift", speed_rc, TRUE)>>
    IN IF "speedrift" \notin wrappers THEN [raised |-> TRUE, rc |-> ExitOk, plugins |-> <<>>]
       ELSE IF speed_rc \notin {ExitOk, ExitFindings}
       THEN [raised |-> FALSE, rc |-> speed_rc, plugins |-> first]
       ELSE SuiteLoop(EXECUTE_PLUGIN_ORDER, enabled, wrappers, answer,
                      IF speed_rc = ExitFindings THEN ExitFindings ELSE ExitOk, first)

_phase_task_id(phase, root_task_id) == "redrift-exec-" \o phase \o "-" \o root_task_id

\* an ensure_task call, by the arguments the task graph is handed
EnsureCall(task_id, phase, blocked_by, description) ==
    [task_id |-> task_id, phase |-> phase, blocked_by |-> blocked_by,
     description |-> description]

\* the fences a phase task inherits: those with a body, in the order of
\* OPTIONAL_SUITE_FENCES
InheritedFences(blocks) ==
    LET kept == SelectSeq(OPTIONAL_SUITE_FENCES,
                          LAMBDA f : f \in DOMAIN blocks /\ blocks[f] # "")
    IN [i \in 1..Len(kept) |-> Fence(kept[i], blocks[kept[i]])]

\* str.replace(c, by) for a single character c
RECURSIVE ReplaceChar(_, _, _)
ReplaceChar(s, c, by) ==
    IF s = "" THEN ""
    ELSE (IF Head(s) = c THEN by ELSE Head(s)) \o ReplaceChar(Tail(s), c, by)

\* _toml_string, by the string its quoted output decodes to
_toml_string(s) == Strip(ReplaceChar(ReplaceChar(s, "\"", ""), "\n", " "))

\* _format_redrift_block, by the table its text decodes to: the keys it
\* writes are schema, artifact_root, required_artifacts and
\* create_phase_followups, and no other
_format_redrift_block(spec, required_artifacts, create_phase_followups) ==
    [schema |-> JNum(spec.schema),
     artifact_root |-> JStr(_toml_string(spec.artifact_root)),
     required_artifacts |->
         ListOf([i \in 1..Len(required_artifacts) |-> _toml_string(required_artifacts[i])]),
     create_phase_followups |-> JBool(create_phase_followups)]

\* _build_phase_task_description, by the redrift block and the fences it
\* embeds
_build_phase_task_description(spec, required_artifacts, inherited_fences) ==
    WithFences(TableBlock(_format_redrift_block(spec, required_artifacts, FALSE)),
               InheritedFences(inherited_fences))

\* faulty variant of the loop below: every phase task is blocked by the
\* phase before it in PHASE_ORDER, created or not
RECURSIVE PhaseTaskLoopByOrder(_, _, _, _, _, _)
PhaseTaskLoopByOrder(phases, phase_map, spec, task_id, inherited_fences, previous_task_id) ==
    IF phases = <<>> THEN <<>>
    ELSE LET phase == Head(phases)
             required == SelectSeq(phase_map[phase], LAMBDA x : Strip(x) # "")
             phase_task_id == _phase_task_id(phase, task_id)
         IN (IF required = <<>> THEN <<>>
             ELSE <<EnsureCall(phase_task_id, phase,
                       IF previous_task_id # "" THEN <<previous_task_id>> ELSE <<>>,
                       _build_phase_task_description(spec, required, inherited_fences))>>)
            \o PhaseTaskLoopByOrder(Tail(phases), phase_map, spec, task_id,
                                    inherited_fences, phase_task_id)

\* the loop of cmd_wg_execute over PHASE_ORDER: the ensure_task calls it makes
RECURSIVE PhaseTaskLoop(_, _, _, _, _, _)
PhaseTaskLoop(phases, phase_map, spec, task_id, inherited_fences, previous_task_id) ==
    IF phases = <<>> THEN <<>>
    ELSE LET phase == Head(phases)
             required == SelectSeq(phase_map[phase], LAMBDA x : Strip(x) # "")
             phase_task_id == _phase_task_id(phase, task_id)
         IN IF required = <<>>
            THEN PhaseTaskLoop(Tail(phases), phase_map, spec, task_id, inherited_fences,
                               previous_task_id)
            ELSE <<EnsureCall(phase_task_id, phase,
                       IF previous_task_id # "" THEN <<previous_task_id>> ELSE <<>>,
                       _build_phase_task_description(spec, required, inherited_fences))>>
                 \o PhaseTaskLoop(Tail(phases), phase_map, spec, task_id, inherited_fences,
                                  phase_task_id)

SuiteResult(task_id, exit_code, plugins) ==
    [task_id |-> task_id, exit_code |-> exit_code, plugins |-> plugins]

\* faulty variant of the loop below: a failing phase check does not end it
RECURSIVE PhaseCheckLoopRunsAll(_, _, _, _, _)
PhaseCheckLoopRunsAll(calls, wrappers, answers, out_rc, results) ==
    IF calls = <<>> THEN [exit_code |-> out_rc, suite_results |-> results]
    ELSE LET call == Head(calls)
             check == _run_suite_check(call.description, wrappers, answers[call.task_id])
             row == SuiteResult(call.task_id, check.rc, check.plugins)
         IN PhaseCheckLoopRunsAll(Tail(calls), wrappers, answers,
                IF check.rc \notin {ExitOk, ExitFindings} THEN check.rc
                ELSE IF check.rc = ExitFindings /\ out_rc = ExitOk THEN ExitFindings
                ELSE out_rc,
                Append(results, row))

\* the phase checks of cmd_wg_execute, in the order the tasks were created
RECURSIVE PhaseCheckLoop(_, _, _, _, _)
PhaseCheckLoop(calls, wrappers, answers, out_rc, results) ==
    IF calls = <<>> THEN [exit_code |-> out_rc, suite_results |-> results]
    ELSE LET call == Head(calls)
             check == _run_suite_check(call.description, wrappers, answers[call.task_id])
             row == SuiteResult(call.task_id, check.rc, check.plugins)
         IN IF check.rc \notin {ExitOk, ExitFindings}
            THEN [exit_code |-> check.rc, suite_results |-> Append(results, row)]
            ELSE PhaseCheckLoop(Tail(calls), wrappers, answers,
                     IF check.rc = ExitFindings /\ out_rc = ExitOk THEN ExitFindings
                     ELSE out_rc,
                     Append(results, row))

ExecuteEnded(exit_code) ==
    [raised |-> FALSE, exit_code |-> exit_code, ran |-> FALSE, ensured |-> <<>>,
     phase_tasks |-> <<>>, suite_results |-> <<>>]

\* cmd_wg_execute in the source repository (no --v2-repo, no --start-service)
cmd_wg_execute(task_id, description, phase_checks, wrappers, answers) ==
    LET spec == from_raw(description.raw)
        inherited_fences == _extract_suite_fence_blocks(description.fences)
        ensured == PhaseTaskLoop(PHASE_ORDER, _phase_artifacts(spec), spec, task_id,
                                 inherited_fences, "")
        root == _run_suite_check(description, wrappers, answers[task_id])
        root_row == <<SuiteResult(task_id, root.rc, root.plugins)>>
        checks == IF root.rc \in {ExitOk, ExitFindings} /\ phase_checks
                  THEN PhaseCheckLoop(ensured, wrappers, answers, root.rc, root_row)
                  ELSE [exit_code |-> root.rc, suite_results |-> root_row]
    IN IF "speedrift" \notin wrappers THEN ExecuteEnded(ExitUsage)
       ELSE IF description.block = "none" THEN ExecuteEnded(ExitUsage)
       ELSE IF description.block = "undecodable" \/ spec.raised THEN ExecuteEnded(ExitFindings)
       ELSE [raised |-> FALSE, exit_code |-> checks.exit_code, ran |-> TRUE,
             ensured |-> ensured,
             phase_tasks |-> [i \in 1..Len(ensured) |-> ensured[i].task_id],
             suite_results |-> checks.suite_results]

(***************************************************************************)
(* SpecExecute: the execute command on task t1, with wrappers that exit    *)
(* with codes of their own choosing                                        *)
(***************************************************************************)
MaxSpots == 2

Plugins == {EXECUTE_PLUGIN_ORDER[i] : i \in 1..Len(EXECUTE_PLUGIN_ORDER)}

ExecuteTaskIds == {"t1"} \cup {_phase_task_id(phase, "t1") : phase \in Phases}

\* a wrapper that does not exit 0 for a task: with findings (3) or failing (1)
Spots ==
    [task_id : ExecuteTaskIds, plugin : {"speedrift", "redrift"},
     exit_code : {ExitFindings, 1}]

RECURSIVE SpotSetsUpTo(_)
SpotSetsUpTo(n) ==
    IF n = 0 THEN {{}}
    ELSE LET smaller == SpotSetsUpTo(n - 1)
         IN smaller \cup {spots \cup {s} : spots \in smaller, s \in Spots}

SpotSets ==
    {spots \in SpotSetsUpTo(MaxSpots) :
        \A a, b \in spots : (a.task_id = b.task_id /\ a.plugin = b.plugin) => a = b}

\* the exit code of every wrapper for every task
AnswersOf(spots) ==
    [task_id \in ExecuteTaskIds |->
        [plugin \in Plugins |->
            IF \E s \in spots : s.task_id = task_id /\ s.plugin = plugin
            THEN (CHOOSE s \in spots : s.task_id = task_id /\ s.plugin = plugin).exit_code
            ELSE ExitOk]]

ExecuteTables ==
    { RawTable(JMissing, NoList, JMissing, JMissing),
      RawTable(JNum(1), ListOf(<<"analyze/inventory.md", "/Build/plan.md", "foo/custom.md">>),
               JMissing, JMissing),
      RawTable(JNum(1), ListOf(<<"respec/v2-spec.md", " ">>), JMissing, JMissing),
      RawTable(JNum(1), ListOf(<<"/", " ">>), JMissing, JMissing),
      WithMembers(RawTable(JNum(1), ListOf(<<"design/adr.md">>), JBool(FALSE), JNum(2)),
                  [artifact_root |-> JStr(" docs/redrift "),
                   verify_commands |-> ListOf(<<"pytest -q">>)]) }

ExecuteFences ==
    { <<>>,
      <<Fence("SpecDrift", " schema = 1 "), Fence("python", "x = 1"),
        Fence("specdrift", "schema = 2")>> }

ExecuteDescriptions ==
    {WithFences(d, fences) :
        d \in {NoBlock, UndecodableBlock} \cup {TableBlock(raw) : raw \in ExecuteTables},
        fences \in ExecuteFences}

WrapperSets == {Plugins, Plugins \ {"speedrift"}, Plugins \ {"specdrift"}}

CmdWgExecute ==
    /\ ex_out = None
    /\ \E description \in ExecuteDescriptions, phase_checks \in BOOLEAN,
          wrappers \in WrapperSets, spots \in SpotSets :
          /\ ex_call' = [task_id |-> "t1", description |-> description,
                         phase_checks |-> phase_checks, wrappers |-> wrappers,
                         spots |-> spots]
          /\ ex_out' = cmd_wg_execute("t1", description, phase_checks, wrappers,
                                      AnswersOf(spots))
    /\ UNCHANGED <<wg_tasks, repo>>
    /\ UNCHANGED <<linVars, fsVars, fuVars, drVars, vrVars, cliVars>>

ExecuteReturn ==
    /\ ex_out # None
    /\ ex_call' = None
    /\ ex_out' = None
    /\ UNCHANGED <<wg_tasks, repo>>
    /\ UNCHANGED <<linVars, fsVars, fuVars, drVars, vrVars, cliVars>>

NextExecute == CmdWgExecute \/ ExecuteReturn

SpecExecute == InitDrift /\ [][NextExecute]_vars

\* execute went on to create phase tasks and run checks
Executed == ex_out # None /\ ex_out.ran

\* the specification of the executed task
ExecutedSpec == from_raw(ex_call.description.raw)

\* the phases that have required artifacts (blank entries are none), in
\* PHASE_ORDER
PhasesWithArtifacts ==
    SelectSeq(PHASE_ORDER, LAMBDA phase :
        \E i \in 1..Len(ExecutedSpec.required_artifacts) :
            LET rel_clean == LStripChars(Strip(ExecutedSpec.required_artifacts[i]), {"/"})
            IN rel_clean # "" /\ _phase_for_artifact(rel_clean) = phase)

(***************************************************************************)
(* C24: cmd_wg_execute creates one phase task per phase that has required  *)
(* artifacts, in the order analyze, respec, design, build, with id         *)
(* redrift-exec-<phase>-<task id>; the first created phase task has no     *)
(* blocker and every later one is blocked by exactly the phase task        *)
(* created immediately before it, so the phase tasks form a single linear  *)
(* chain even when a phase is skipped.                                     *)
(***************************************************************************)
C24_PhaseChain ==
    Executed =>
        /\ Len(ex_out.ensured) = Len(PhasesWithArtifacts)
        /\ \A i \in 1..Len(ex_out.ensured) :
              /\ ex_out.ensured[i].phase = PhasesWithArtifacts[i]
              /\ ex_out.ensured[i].task_id
                    = "redrift-exec-" \o PhasesWithArtifacts[i] \o "-" \o ex_call.task_id
              /\ ex_out.ensured[i].blocked_by
                    = IF i = 1 THEN <<>> ELSE <<ex_out.ensured[i - 1].task_id>>

\* analyze and build have artifacts, respec and design are skipped: the
\* build task is blocked by the analyze task
C24_Witness ==
    /\ Executed
    /\ PhasesWithArtifacts = <<"analyze", "build">>
    /\ Len(ex_out.ensured) = 2
    /\ ex_out.ensured[2].blocked_by = <<"redrift-exec-analyze-t1">>

\* the exit codes that let a run go on
InRange(rc) == rc \in {0, 3}

\* the tasks execute may check: the root, then the phase tasks as created
CheckOrder == <<ex_call.task_id>> \o ex_out.phase_tasks

(***************************************************************************)
(* C25: in cmd_wg_execute the root suite check always runs first; phase    *)
(* suite checks run only when phase_checks is set and the root check       *)
(* returned 0 or 3, in phase-task order, stopping at the first check whose *)
(* exit code is outside {0, 3}; the final exit code is that out-of-range   *)
(* code if one occurred, otherwise 3 if any check returned 3, otherwise 0. *)
(***************************************************************************)
C25_CheckOrderAndExit ==
    Executed =>
        LET results == ex_out.suite_results
            n == Len(results)
        IN /\ n >= 1
           /\ n <= Len(CheckOrder)
           /\ \A i \in 1..n : results[i].task_id = CheckOrder[i]
           /\ n > 1 => ex_call.phase_checks /\ InRange(results[1].exit_code)
           /\ \A i \in 1..(n - 1) : InRange(results[i].exit_code)
           /\ (ex_call.phase_checks /\ InRange(results[n].exit_code)) => n = Len(CheckOrder)
           /\ ex_out.exit_code =
                 IF ~InRange(results[n].exit_code) THEN results[n].exit_code
                 ELSE IF \E i \in 1..n : results[i].exit_code = 3 THEN 3
                 ELSE 0

\* four phase tasks, the root check returns 3 and the second phase check
\* fails: the remaining two phase checks are not run
C25_Witness ==
    /\ Executed
    /\ ex_call.phase_checks
    /\ Len(ex_out.phase_tasks) = 4
    /\ Len(ex_out.suite_results) = 3
    /\ ex_out.suite_results[1].exit_code = 3
    /\ ex_out.suite_results[3].exit_code = 1
    /\ ex_out.exit_code = 1

(***************************************************************************)
(* SpecSuite: one suite check of a task, with wrappers that may be missing *)
(* and that exit with codes of their own choosing                          *)
(***************************************************************************)
SuiteFences ==
    { <<>>,
      <<Fence("uxdrift", "url = 1"), Fence("SpecDrift", "")>>,
      <<Fence("specdrift", "schema = 1"), Fence("python", "x = 1"),
        Fence("yagnidrift", "a = 1")>> }

SuiteDescriptions ==
    {WithFences(d, fences) :
        d \in {NoBlock, TableBlock(RawTable(JMissing, NoList, JMissing, JMissing))},
        fences \in SuiteFences}

SuiteWrapperSets == {Plugins, Plugins \ {"speedrift"}, Plugins \ {"uxdrift"}}

SuiteAnswers ==
    {[plugin \in Plugins |->
        IF plugin \in DOMAIN given THEN given[plugin] ELSE ExitOk] :
        given \in [{"speedrift", "specdrift", "uxdrift", "redrift"} -> {ExitOk, ExitFindings, 1}]}

RunSuiteCheck ==
    /\ ex_out = None
    /\ \E description \in SuiteDescriptions, wrappers \in SuiteWrapperSets,
          answer \in SuiteAnswers :
          /\ ex_call' = [task_id |-> "t1", description |-> description,
                         wrappers |-> wrappers, answer |-> answer]
          /\ ex_out' = _run_suite_check(description, wrappers, answer)
    /\ UNCHANGED <<wg_tasks, repo>>
    /\ UNCHANGED <<linVars, fsVars, fuVars, drVars, vrVars, cliVars>>

NextSuite == RunSuiteCheck \/ ExecuteReturn

SpecSuite == InitDrift /\ [][NextSuite]_vars

\* the suite check returned
SuiteReturned == ex_out # None /\ ~ex_out.raised

\* the plugins a fence of the description enables
EnabledByFence ==
    {p \in Plugins \ {"speedrift", "redrift"} :
        \E i \in 1..Len(ex_call.description.fences) :
            Lower(ex_call.description.fences[i].info) = p}
    \cup (IF ex_call.description.block = "none" THEN {} ELSE {"redrift"})

PluginIndex(plugin) == CHOOSE i \in 1..Len(EXECUTE_PLUGIN_ORDER) : EXECUTE_PLUGIN_ORDER[i] = plugin

(***************************************************************************)
(* C27: _run_suite_check always invokes speedrift first and then only the  *)
(* plugins enabled by a fence in the description, in the fixed             *)
(* EXECUTE_PLUGIN_ORDER with redrift last; once any plugin exits with a    *)
(* code outside {0, 3} no further plugin is invoked and that code is       *)
(* returned; otherwise the result is 3 iff some plugin returned 3 and 0    *)
(* otherwise, and an enabled plugin whose wrapper is missing is not        *)
(* invoked and is recorded with exit code 0.                               *)
(***************************************************************************)
C27_SuiteOrder ==
    SuiteReturned =>
        LET rows == ex_out.plugins
            n == Len(rows)
        IN /\ n >= 1
           /\ rows[1].plugin = "speedrift" /\ rows[1].invoked
           /\ \A i \in 2..n : rows[i].plugin \in EnabledByFence
           /\ \A i \in 1..(n - 1) : PluginIndex(rows[i].plugin) < PluginIndex(rows[i + 1].plugin)
           /\ \A i \in 1..n :
                 /\ rows[i].invoked <=> rows[i].plugin \in ex_call.wrappers
                 /\ rows[i].exit_code = IF rows[i].invoked THEN ex_call.answer[rows[i].plugin]
                                        ELSE 0
           /\ \A i \in 1..(n - 1) : InRange(rows[i].exit_code)
           /\ IF ~InRange(rows[n].exit_code) THEN ex_out.rc = rows[n].exit_code
              ELSE /\ {rows[i].plugin : i \in 2..n} = EnabledByFence
                   /\ ex_out.rc = IF \E i \in 1..n : rows[i].exit_code = 3 THEN 3 ELSE 0

\* uxdrift is enabled but has no wrapper, specdrift returns 3, redrift fails
C27_Witness ==
    /\ SuiteReturned
    /\ Len(ex_out.plugins) = 4
    /\ ex_out.plugins[2] = PluginRow("specdrift", 3, TRUE)
    /\ ex_out.plugins[3] = PluginRow("uxdrift", 0, FALSE)
    /\ ex_out.plugins[4] = PluginRow("redrift", 1, TRUE)
    /\ ex_out.rc = 1

(***************************************************************************)
(* cli.py: the commit command                                              *)
(***************************************************************************)
COMMIT_PHASES == {"root", "analyze", "respec", "design", "build"}

COMMIT_EXCLUDE_PATHS ==
    << ".workgraph/.speedrift/**", ".workgraph/.specdrift/**", ".workgraph/.datadrift/**",
       ".workgraph/.depsdrift/**", ".workgraph/.uxdrift/**", ".workgraph/.therapydrift/**",
       ".workgraph/.yagnidrift/**", ".workgraph/.redrift/last.json" >>

\* _phase_from_task_id: the phase of a generated execute task, else root
_phase_from_task_id(task_id) ==
    IF \E phase \in Phases : StartsWith(task_id, "redrift-exec-" \o phase \o "-")
    THEN CHOOSE phase \in Phases : StartsWith(task_id, "redrift-exec-" \o phase \o "-")
    ELSE "root"

\* _stage_redrift_commit: git add -A with one exclude pathspec per entry
\* stages every changed path that no exclude pathspec matches
_stage_redrift_commit(changed) ==
    {path \in changed :
        ~\E i \in 1..Len(COMMIT_EXCLUDE_PATHS) : FnMatch(path, COMMIT_EXCLUDE_PATHS[i])}

CommitEnded(exit_code) ==
    [exit_code |-> exit_code, committed |-> FALSE, logged |-> FALSE, staged |-> {}]

\* cmd_wg_commit: in_git is whether the project lies in a git repository,
\* phase the --phase argument ("" when not given), changed the paths git
\* status reports
cmd_wg_commit(task_id, phase_arg, dry_run, write_log, in_git, changed) ==
    LET phase == IF phase_arg # "" THEN Lower(Strip(phase_arg))
                 ELSE _phase_from_task_id(task_id)
        staged == _stage_redrift_commit(changed)
    IN IF ~in_git THEN CommitEnded(ExitUsage)
       ELSE IF phase \notin COMMIT_PHASES THEN CommitEnded(ExitUsage)
       ELSE IF changed = {} THEN CommitEnded(ExitUsage)
       ELSE IF dry_run THEN CommitEnded(ExitOk)
       ELSE IF staged = {} THEN CommitEnded(ExitUsage)
       ELSE [exit_code |-> ExitOk, committed |-> TRUE, logged |-> write_log,
             staged |-> staged]

(***************************************************************************)
(* SpecCommit: files change in the working tree and the commit command is  *)
(* run on an execute task                                                  *)
(***************************************************************************)
MaxCommits == 2

CommitPaths ==
    { "docs.md",
      ".workgraph/.redrift/t1/analyze/inventory.md",
      ".workgraph/.redrift/last.json",
      ".workgraph/.speedrift/state.json",
      ".workgraph/.coredrift/state.json" }

CommitTaskIds == {"t1", "redrift-exec-analyze-t1"}

\* a file is written or edited
EditFile ==
    /\ ex_out = None
    /\ \E path \in CommitPaths \ repo.changed :
          repo' = [repo EXCEPT !.changed = @ \cup {path}]
    /\ UNCHANGED <<ex_call, ex_out, wg_tasks>>
    /\ UNCHANGED <<linVars, fsVars, fuVars, drVars, vrVars, cliVars>>

CmdWgCommit ==
    /\ ex_out = None
    /\ Len(repo.commits) < MaxCommits
    /\ \E task_id \in CommitTaskIds, phase_arg \in {"", " Design ", "deploy"},
          dry_run \in BOOLEAN, write_log \in BOOLEAN, in_git \in BOOLEAN :
          LET out == cmd_wg_commit(task_id, phase_arg, dry_run, write_log, in_git,
                                   repo.changed)
          IN /\ out.logged => Len(wg_log) < MaxWgLog
             /\ ex_call' = [task_id |-> task_id, phase_arg |-> phase_arg,
                            dry_run |-> dry_run, write_log |-> write_log,
                            in_git |-> in_git, changed |-> repo.changed]
             /\ ex_out' = out
             /\ repo' = IF out.committed
                        THEN [changed |-> repo.changed \ out.staged,
                              commits |-> Append(repo.commits, out.staged)]
                        ELSE repo
             /\ wg_log' = IF out.logged THEN Append(wg_log, [commit |-> out.staged])
                          ELSE wg_log
    /\ UNCHANGED <<wg_tasks, last_json, wr_out>>
    /\ UNCHANGED <<linVars, fsVars, fuVars, drVars, vrVars>>

NextCommit == EditFile \/ CmdWgCommit \/ ExecuteReturn

SpecCommit == InitDrift /\ [][NextCommit]_vars

\* the state directories of the drift tools below .workgraph (.redrift holds
\* the artifacts; only its last.json is state)
DriftStateDirs ==
    {skip \in _SKIP_DIRS : StartsWith(skip, ".workgraph/")} \ {".workgraph/.redrift"}

IsDriftState(path) ==
    \/ \E dir \in DriftStateDirs : StartsWith(path, dir \o "/")
    \/ path = ".workgraph/.redrift/last.json"

(***************************************************************************)
(* C26: cmd_wg_commit never includes files under drift-tool state          *)
(* directories (such as .workgraph/.coredrift/state.json) in the commit it *)
(* creates; when the only working-tree changes are such state files it     *)
(* returns the usage exit code, creates no commit and writes no log entry. *)
(***************************************************************************)
C26_StateFilesNeverCommitted ==
    /\ \A i \in 1..Len(repo.commits) : \A path \in repo.commits[i] : ~IsDriftState(path)
    /\ (/\ ex_out # None
        /\ ~ex_call.dry_run
        /\ ex_call.changed # {}
        /\ \A path \in ex_call.changed : IsDriftState(path))
           => /\ ex_out.exit_code = ExitUsage
              /\ ~ex_out.committed
              /\ ~ex_out.logged

(***************************************************************************)
(* C29: extracting and decoding the redrift block that execute embeds in a *)
(* generated phase task yields a specification equal to the root           *)
(* specification in schema, artifact_root, verify_required,                *)
(* verify_commands, verify_assertions and max_followup_depth; only         *)
(* required_artifacts and create_phase_followups differ.                   *)
(***************************************************************************)
C29_PhaseBlockKeepsRootRules ==
    Executed =>
        \A i \in 1..Len(ex_out.ensured) :
            LET phase_spec == from_raw(ex_out.ensured[i].description.raw)
            IN /\ ~phase_spec.raised
               /\ phase_spec.schema = ExecutedSpec.schema
               /\ phase_spec.artifact_root = ExecutedSpec.artifact_root
               /\ phase_spec.verify_required = ExecutedSpec.verify_required
               /\ phase_spec.verify_commands = ExecutedSpec.verify_commands
               /\ phase_spec.verify_assertions = ExecutedSpec.verify_assertions
               /\ phase_spec.max_followup_depth = ExecutedSpec.max_followup_depth
               /\ ~phase_spec.create_phase_followups

(***************************************************************************)
(* cli.py: follow-up creation by the check entry point                     *)
(***************************************************************************)
\* a task of the graph: origin is the task whose check generated it ("" for
\* a task the user wrote); its description embeds the origin's redrift block
Task(task_id, origin, description) ==
    [task_id |-> task_id, origin |-> origin, description |-> description]

\* faulty variant: always the single v2 follow-up
_maybe_create_followups_V2Only(task_id, description, spec, report) ==
    IF report.findings = <<>> THEN <<>>
    ELSE <<Task("redrift-v2-" \o task_id, task_id, description)>>

\* _maybe_create_followups: the ensure_task calls, in order; spec is
\* report["spec"] and phase_missing report["telemetry"]["phase_missing"]
_maybe_create_followups(task_id, description, spec, report) ==
    IF report.findings = <<>> THEN <<>>
    ELSE IF ~spec.create_phase_followups
    THEN <<Task("redrift-v2-" \o task_id, task_id, description)>>
    ELSE LET phases == SelectSeq(PHASE_ORDER, LAMBDA phase :
                           \E i \in 1..Len(report.telemetry.phase_missing[phase]) :
                               Strip(report.telemetry.phase_missing[phase][i]) # "")
         IN [i \in 1..Len(phases) |->
                Task("redrift-" \o phases[i] \o "-" \o task_id, task_id, description)]

\* Workgraph.ensure_task: the task is added unless one with its id exists
RECURSIVE ensure_tasks(_, _)
ensure_tasks(tasks, calls) ==
    IF calls = <<>> THEN tasks
    ELSE ensure_tasks(
            IF \E i \in 1..Len(tasks) : tasks[i].task_id = Head(calls).task_id
            THEN tasks ELSE Append(tasks, Head(calls)),
            Tail(calls))

(***************************************************************************)
(* SpecChain: the check entry point with --create-followups, run on a task *)
(* and on the follow-up tasks it generated                                 *)
(***************************************************************************)
MaxChainDepth == 2

ChainTables ==
    { RawTable(JNum(1), ListOf(<<"analyze/inventory.md", "design/adr.md">>), JMissing, JMissing),
      RawTable(JNum(1), ListOf(<<"analyze/inventory.md">>), JMissing, JNum(0)),
      WithMembers(RawTable(JNum(1), ListOf(<<"respec/v2-spec.md">>), JMissing, JMissing),
                  [create_phase_followups |-> JBool(FALSE)]),
      RawTable(JNum(1), ListOf(<<" ">>), JBool(FALSE), JNum(0)) }

ChainArtifacts == {ArtifactPath(DefaultArtifactRoot, "t1", "design/adr.md")}

ChainCreateArtifact == CreateArtifactOf(ChainArtifacts)

\* the user writes task t1 with a redrift block
AddRootTask ==
    /\ wg_tasks = <<>>
    /\ \E raw \in ChainTables : wg_tasks' = <<Task("t1", "", TableBlock(raw))>>
    /\ UNCHANGED <<ex_call, ex_out, repo>>
    /\ UNCHANGED <<linVars, fsVars, fuVars, drVars, vrVars, cliVars>>

\* redrift wg check --task <id> --create-followups on a task of the graph
CmdWgCheckFollowups ==
    /\ dr_out = None
    /\ \E i \in 1..Len(wg_tasks) :
          LET task == wg_tasks[i]
              \* no verify report has been written for a generated task
              vf == vfiles @@ (verify_state_path(task.task_id) :> VAbsent)
              out == cmd_wg_check(task.task_id, task.description, disk, graph, vf)
              spec == from_raw(task.description.raw)
              calls == IF out.raised \/ spec.raised THEN <<>>
                       ELSE _maybe_create_followups(task.task_id, task.description, spec,
                                                    out.report)
          IN /\ redrift_lineage(task.task_id).depth < MaxChainDepth
             /\ dr_call' = [task_id |-> task.task_id, description |-> task.description,
                            write_log |-> FALSE]
             /\ dr_out' = out
             /\ last_json' = IF out.stored THEN out.report ELSE last_json
             /\ wr_out' = IF out.stored THEN WriteOutcome("last.json", FALSE, FALSE)
                          ELSE wr_out
             /\ wg_tasks' = ensure_tasks(wg_tasks, calls)
    /\ UNCHANGED <<wg_log, ex_call, ex_out, repo>>
    /\ UNCHANGED <<linVars, fsVars, fuVars, vrVars>>

NextChain ==
    \/ AddRootTask
    \/ ChainCreateArtifact
    \/ RemoveArtifact
    \/ CmdWgCheckFollowups
    \/ DriftReturn

SpecChain == InitDrift /\ [][NextChain]_vars

(***************************************************************************)
(* C28: over any sequence of check invocations with follow-up creation     *)
(* enabled (on a task and on the follow-up tasks it generated), no         *)
(* follow-up task is ever created whose lineage depth, as computed by      *)
(* redrift_lineage, exceeds the specification's max_followup_depth.        *)
(***************************************************************************)
C28_FollowupDepthBounded ==
    \A i \in 1..Len(wg_tasks) :
        wg_tasks[i].origin # "" =>
            redrift_lineage(wg_tasks[i].task_id).depth
                <= from_raw(wg_tasks[i].description.raw).max_followup_depth

(***************************************************************************)
(* C30: two distinct task identifiers never map to the same persisted      *)
(* verification-report path, so a report written for one task is never     *)
(* read back as the verification state of a different task during drift    *)
(* evaluation.                                                             *)
(***************************************************************************)
C30_NoCrossTaskRead ==
    \A a \in GateTaskIds, b \in GateTaskIds :
        (a # b /\ persisted[a] # None /\ persisted[b] = None) =>
            /\ verify_state_path(a) # verify_state_path(b)
            /\ load_verify_state(vfiles, b) = None
            /\ (Returned /\ dr_call.task_id = b) => ~dr_out.telemetry.verify_report_found

====
